---- MODULE Spec2Model ----
(***************************************************************************)
(* Model of the Voice-Diary pipeline: the scheduler (scheduler.py), the    *)
(* transcription step (openai_whisper.py), the diary organizer             *)
(* (process_transcription.py, openai_processor.py).                        *)
(*                                                                         *)
(* Text is a sequence of tokens.  A token is one character ("#", "-", "*", *)
(* ".", "1" for a digit, "a" and "b" for any other visible character,      *)
(* "sp" for a blank, "nl" for a line feed) or one of the literals the code *)
(* searches for, none of which begins or ends with white space:            *)
(*   "OE" = ORGANIZED ENTRY, "TD" = TO-DO ITEMS,                           *)
(*   "ND" = No to-do items detected.                                       *)
(***************************************************************************)
EXTENDS Integers, Sequences, FiniteSets, TLC

VARIABLES
  (* ---- pure-function harness (openai_processor.py, scheduler.py) ---- *)
  fnPc,             \* "input" before the function under study ran, "done" after
  analysis,         \* the model response handed to the extractors
  todo_matched,     \* extract_todo_items: todo_section_match is not None
  todo_section,     \* extract_todo_items: todo_section (<<>> without a match)
  todo_items,       \* result of extract_todo_items
  entry_found,      \* extract_organized_entry returned a string (not None)
  organized_entry,  \* that string (<<>> when None)
  (* ---- scheduler.py ---- *)
  runs_per_day,     \* config["scheduler"]["runs_per_day"]
  interval_seconds, \* main(): interval_seconds
  mainPc,           \* position of main(): start, cycle, sleep, returned,
                    \*   stopped (KeyboardInterrupt), error_exit (sys.exit(1))
  pipePc,           \* position of run_pipeline(): idle (not running),
                    \*   download, transcribe, process (the step to run next)
  cycles,           \* number of calls of run_pipeline so far
  auto_update_date, \* diary_config["auto_update_date"]
  diary_config_date,\* diary_config["current_date"], the scheduler's copy
  day_changed,      \* run_pipeline(): day_changed
  (* ---- the clock ---- *)
  today,            \* the calendar day, datetime.now().strftime("%y%m%d")
  (* ---- the environment ---- *)
  endpoint,         \* the responses the completion endpoint may give
  faults,           \* file operations that have failed so far
  (* ---- files ---- *)
  cfg_date,         \* config.json: diary_manager.current_date (NoDate: no key)
  diary,            \* the dated diary files, one per day
  legacy,           \* the legacy diary file ongoing_entries.txt
  todo,             \* to_do.txt
  outputFile,       \* the transcription output file
  downloads,        \* audio files in the downloads directory
  processed,        \* audio files in the processed directory
  (* ---- observations of the run, used to state the properties ---- *)
  attempted,        \* the steps run_pipeline has started in this cycle
  stepResult,       \* outcome of each step of this cycle
  ioFailed,         \* some file operation of this cycle failed and was logged
  startDiary,       \* diary when the steps of the cycle began
  startTodo,        \* todo when the cycle began
  prevCheck,        \* day and outcome of the previous check_for_day_change
  proc,             \* what the last processing step saw and returned
  organized,        \* history: what the output file holds was appended to the diary
  (* ---- openai_whisper.find_audio_files ---- *)
  directory,        \* the directory handed to find_audio_files
  found_files,      \* find_audio_files: the list it returns
  (* ---- openai_whisper.chunk_audio_file ---- *)
  duration,         \* calculate_duration(file_path), NoDuration when it raises
  max_chunk_size_sec, \* max_chunk_size_ms / 1000
  transcoder,       \* "ok", or "missing" when ffmpeg cannot be started
  requests,         \* the segments asked of the transcoder, in order
  chunk_files,      \* chunk_audio_file: the list it returns
  (* ---- openai_whisper.transcribe_audio_files ---- *)
  api_key,          \* an API key is configured for the transcription client
  model_type,       \* config["model_type"]
  should_chunk,     \* config["chunk_audio"]
  recordings,       \* the durations of the audio files handed over, in order
  tPc,              \* "idle", "loop", "returned", or "exited" (sys.exit(1))
  file_no,          \* index of the file being transcribed
  file_chunks,      \* the chunks of that file still to transcribe
  chunk_transcripts,\* chunk_transcripts of that file
  file_transcripts, \* transcribe_audio_files: transcripts, the result at the end
  heard,            \* every call of transcribe_with_*: unit, outcome, requests sent
  file_names,       \* the names of the audio files handed over, in order
  now_sec,          \* the wall clock, in seconds
  audit,            \* the files of the received_transcriptions directory
  temp_chunks,      \* the chunk files that exist in the temporary directories
  io_budget,        \* file operations of the transcription that may still fail
  (* ---- openai_processor.call_openai_api ---- *)
  openai_key,       \* an API key is configured for the completion client
  api_cache,        \* _api_cache: request -> result (NoResult: no entry)
  apiPc,            \* "idle", "attempting", "returned", "raised"
  request,          \* the request of the current call
  attempt,          \* attempt of the retry loop
  retry_delay,      \* retry_delay of the retry loop
  slept,            \* the time.sleep calls of the current call, in order
  invoked,          \* completion requests sent by the current call
  api_result,       \* what the current call returned
  api_calls,        \* calls of call_openai_api so far in this process
  answered,         \* history: the first result the endpoint gave for each request
  (* ---- scheduler_control/views.py, the dashboard ---- *)
  status,           \* the SchedulerStatus row: is_running, and the seconds since
                    \*   last_started (NoStart: null)
  procs,            \* the scheduler processes in the process table
  scheduler_process,\* the global scheduler_process: the process spawned last
  handlers,         \* the toggle_scheduler requests being handled
  last_request      \* the request handled last: user, view, served, reply

fnVars == <<fnPc, analysis, todo_matched, todo_section, todo_items, entry_found, organized_entry>>
schedVars == <<runs_per_day, interval_seconds>>
mainVars == <<mainPc, pipePc, cycles, auto_update_date, diary_config_date, day_changed>>
envVars == <<today, endpoint, faults>>
fileVars == <<cfg_date, diary, legacy, todo, outputFile, downloads, processed>>
obsVars == <<attempted, stepResult, ioFailed, startDiary, startTodo, prevCheck, proc,
            organized>>
pipeVars == <<mainVars, envVars, fileVars, obsVars>>
findVars == <<directory, found_files>>
chunkVars == <<duration, max_chunk_size_sec, transcoder, requests, chunk_files>>
transVars == <<api_key, model_type, should_chunk, recordings, tPc, file_no,
               file_chunks, chunk_transcripts, file_transcripts, heard,
               file_names, now_sec, audit, temp_chunks, io_budget>>
apiVars == <<openai_key, api_cache, apiPc, request, attempt, retry_delay, slept,
             invoked, api_result, api_calls, answered>>
webVars == <<status, procs, scheduler_process, handlers, last_request>>
unitVars == <<findVars, chunkVars, transVars, apiVars, webVars>>
vars == <<fnVars, schedVars, pipeVars, unitVars>>

----------------------------------------------------------------------------
(* Bounds *)
MaxParts == 4          \* a model response is built from at most MaxParts parts
MaxRunsPerDay == 90000 \* largest runs_per_day tried on calculate_interval_seconds
MaxProcParts == 3      \* the same, for the responses tried on the processing step
MaxCycles == 2         \* cycles the scheduler may start
MaxDay == 1            \* calendar days are 0..MaxDay
MaxFiles == 1          \* audio files that ever arrive
MaxFaults == 1         \* file operations that may fail in one run

----------------------------------------------------------------------------
(* Text helpers: Python str / re primitives on token sequences *)

\* str.isspace / regex \s on one token
IsSpace(c) == c \in {"sp", "nl"}

\* regex \d on one token
IsDigit(c) == c = "1"

\* text[i:] as a 1-based suffix
Suffix(t, i) == IF i > Len(t) THEN <<>> ELSE SubSeq(t, i, Len(t))

\* str.startswith at position i (1-based)
StartsWithAt(t, i, p) ==
  /\ i + Len(p) - 1 <= Len(t)
  /\ \A k \in 1..Len(p) : t[i + k - 1] = p[k]

\* substring test:  p in t
Contains(t, p) == \E i \in 1..Len(t) : StartsWithAt(t, i, p)

RECURSIVE LStrip(_)
LStrip(t) == IF t # <<>> /\ IsSpace(Head(t)) THEN LStrip(Tail(t)) ELSE t

RECURSIVE RStrip(_)
RStrip(t) ==
  IF t # <<>> /\ IsSpace(t[Len(t)]) THEN RStrip(SubSeq(t, 1, Len(t) - 1)) ELSE t

\* str.strip()
Strip(t) == RStrip(LStrip(t))

\* str.split('\n'): the pieces between line feeds, empty pieces kept
RECURSIVE SplitLines(_)
SplitLines(t) ==
  IF \A i \in 1..Len(t) : t[i] # "nl"
  THEN <<t>>
  ELSE LET n == CHOOSE i \in 1..Len(t) :
                  /\ t[i] = "nl"
                  /\ \A j \in 1..(i - 1) : t[j] # "nl"
       IN <<SubSeq(t, 1, n - 1)>> \o SplitLines(Suffix(t, n + 1))

----------------------------------------------------------------------------
(* openai_processor.py: section extraction *)

\* the literal '## ORGANIZED ENTRY' / '## TO-DO ITEMS' of the two patterns
HeadingLiteral(name) == <<"#", "#", "sp", name>>

\* the same search with a greedy group (.*), which runs to the end of the text
SectionSearch_Greedy(text, name) ==
  LET lit == HeadingLiteral(name)
      Hit(i) == /\ StartsWithAt(text, i, lit)
                /\ i + Len(lit) <= Len(text)
                /\ IsSpace(text[i + Len(lit)])
  IN IF \E i \in 1..Len(text) : Hit(i)
     THEN LET i == CHOOSE x \in 1..Len(text) :
                     Hit(x) /\ \A y \in 1..(x - 1) : ~Hit(y)
          IN [matched |-> TRUE, group |-> LStrip(Suffix(text, i + Len(lit)))]
     ELSE [matched |-> FALSE, group |-> <<>>]

\* re.search(r'## NAME\s+(.*?)(?=##|\Z)', text, re.DOTALL):
\* the leftmost position where the literal is followed by white space; the
\* greedy \s+ eats all of it; the lazy group runs to the next '##' or the end.
SectionSearch(text, name) ==
  LET lit == HeadingLiteral(name)
      Hit(i) == /\ StartsWithAt(text, i, lit)
                /\ i + Len(lit) <= Len(text)
                /\ IsSpace(text[i + Len(lit)])
  IN IF \E i \in 1..Len(text) : Hit(i)
     THEN LET i == CHOOSE x \in 1..Len(text) :
                     Hit(x) /\ \A y \in 1..(x - 1) : ~Hit(y)
              rest == LStrip(Suffix(text, i + Len(lit)))
              stops == {k \in 1..Len(rest) : StartsWithAt(rest, k, <<"#", "#">>)}
              stop == IF stops = {} THEN Len(rest) + 1
                      ELSE CHOOSE k \in stops : \A m \in stops : k <= m
          IN [matched |-> TRUE, group |-> SubSeq(rest, 1, stop - 1)]
     ELSE [matched |-> FALSE, group |-> <<>>]

\* extract_organized_entry: None when there is no match, else group(1).strip()
extract_organized_entry(text) ==
  LET m == SectionSearch(text, "OE")
  IN [found |-> m.matched,
      entry |-> IF m.matched THEN Strip(m.group) ELSE <<>>]

\* number of leading digits of a line (the \d+ of r'^\d+\.')
RECURSIVE LeadingDigits(_)
LeadingDigits(line) ==
  IF line # <<>> /\ IsDigit(Head(line)) THEN 1 + LeadingDigits(Tail(line)) ELSE 0

\* re.match(r'^\d+\.', line)
IsNumbered(line) ==
  LET n == LeadingDigits(line)
  IN n > 0 /\ n < Len(line) /\ line[n + 1] = "."

\* the loop body without its elif branch: numbered lines are not recognised
TodoOfLine_BulletsOnly(rawline) ==
  LET line == Strip(rawline)
  IN IF line # <<>> /\ Head(line) \in {"-", "*"}
     THEN <<Strip(Tail(line))>>
     ELSE <<>>

\* the body of the for loop of extract_todo_items, for one line
TodoOfLine(rawline) ==
  LET line == Strip(rawline)
  IN IF line # <<>> /\ Head(line) \in {"-", "*"}
     THEN <<Strip(Tail(line))>>
     ELSE IF IsNumbered(line)
          THEN <<Strip(Suffix(line, LeadingDigits(line) + 2))>>
          ELSE <<>>

RECURSIVE TodoLoop(_)
TodoLoop(lines) ==
  IF lines = <<>> THEN <<>> ELSE TodoOfLine(Head(lines)) \o TodoLoop(Tail(lines))

\* extract_todo_items, lines 228-233: the section match and its stripped group
TodoSectionOf(text) ==
  LET m == SectionSearch(text, "TD")
  IN [matched |-> m.matched,
      section |-> IF m.matched THEN Strip(m.group) ELSE <<>>]

extract_todo_items(text) ==
  LET s == TodoSectionOf(text)
  IN IF ~s.matched THEN <<>>
     ELSE IF Contains(s.section, <<"ND">>) THEN <<>>
     ELSE TodoLoop(SplitLines(s.section))

----------------------------------------------------------------------------
(* Inputs of the extractor harness *)

\* the pieces a model response is assembled from
ResponseParts ==
  { HeadingLiteral("OE"), HeadingLiteral("TD"),
    <<"#">>, <<"sp">>, <<"nl">>, <<"a">>, <<"b">>,
    <<"-">>, <<"*", "sp">>, <<"1">>, <<".">>, <<"ND">>,
    <<"nl", "-", "sp">>, <<"nl", "1", ".">> }

RECURSIVE Responses(_)
Responses(n) ==
  IF n = 0 THEN {<<>>}
  ELSE LET prev == Responses(n - 1)
       IN prev \cup {t \o p : t \in prev, p \in ResponseParts}

----------------------------------------------------------------------------
(* scheduler.py: calculate_interval_seconds *)

seconds_per_day == 86400

\* int(a / b): true division, then truncation toward zero.  For the integers
\* used here the float quotient truncates to the same integer as the exact one.
IntOfQuotient(a, b) ==
  IF b > 0 THEN (IF a >= 0 THEN a \div b ELSE -((-a) \div b))
           ELSE (IF a >= 0 THEN -(a \div (-b)) ELSE (-a) \div (-b))

\* the interval rounded to the nearest second instead of truncated
calculate_interval_seconds_Rounded(rpd) ==
  IF rpd = 0 THEN 0 ELSE IntOfQuotient(2 * seconds_per_day + rpd, 2 * rpd)

calculate_interval_seconds(rpd) ==
  IF rpd = 0 THEN 0 ELSE IntOfQuotient(seconds_per_day, rpd)

\* the harness of the pure functions at rest
FnIdle ==
  /\ fnPc = "input" /\ analysis = <<>>
  /\ todo_matched = FALSE /\ todo_section = <<>> /\ todo_items = <<>>
  /\ entry_found = FALSE /\ organized_entry = <<>>

\* no directory has been handed to find_audio_files
NoDirectory == [exists |-> FALSE, listable |-> FALSE, entries |-> <<>>]

FindIdle == directory = NoDirectory /\ found_files = <<>>

\* calculate_duration raised: neither ffprobe nor the file size is available
NoDuration == -1

ChunkIdle ==
  /\ duration = 0 /\ max_chunk_size_sec = 1 /\ transcoder = "ok"
  /\ requests = <<>> /\ chunk_files = <<>>

TransIdle ==
  /\ api_key = TRUE /\ model_type = "whisper-1" /\ should_chunk = FALSE
  /\ recordings = <<>> /\ tPc = "idle" /\ file_no = 0 /\ file_chunks = <<>>
  /\ chunk_transcripts = <<>> /\ file_transcripts = <<>> /\ heard = <<>>
  /\ file_names = <<>> /\ now_sec = 0 /\ audit = {} /\ temp_chunks = {}
  /\ io_budget = 0

\* a request: model, messages, temperature and max tokens make the cache key
Requests == [model : {"gpt-4o", "gpt-3.5-turbo"}, messages : {"m1", "m2"}]

\* no entry of _api_cache, no result
NoResult == "none"

ApiIdle ==
  /\ openai_key = TRUE
  /\ api_cache = [r \in Requests |-> NoResult]
  /\ apiPc = "idle" /\ request = [model |-> "gpt-4o", messages |-> "m1"]
  /\ attempt = 0 /\ retry_delay = 1 /\ slept = <<>> /\ invoked = 0
  /\ api_result = NoResult /\ api_calls = 0
  /\ answered = [r \in Requests |-> NoResult]

\* models.py line 8: last_started is null
NoStart == -1

\* no process was spawned by this dashboard process
NoProcess == 0

NoRequest == [user |-> "anonymous", view |-> "none", served |-> FALSE,
              reply |-> "none", seq |-> 0]

WebIdle ==
  /\ status = [is_running |-> FALSE, since_start |-> NoStart]
  /\ procs = {} /\ scheduler_process = NoProcess
  /\ handlers = <<>>
  /\ last_request = NoRequest

\* the functions of the transcription, completion and dashboard modules at rest
UnitIdle ==
  /\ FindIdle /\ ChunkIdle /\ TransIdle /\ ApiIdle /\ WebIdle

----------------------------------------------------------------------------
(* Files.  A text file is the sequence of the strings written to it; every *)
(* element is one f.write call of the code.  Time stamps inside the text   *)
(* are left out, dates are kept.                                           *)

NoDate == -1
Days == 0..MaxDay

AbsentFile == [exists |-> FALSE, content |-> <<>>]
FileOf(c) == [exists |-> TRUE, content |-> c]

\* f"# Diary Entries for {full_date}\n\n"
DiaryHeader(d) == [k |-> "DiaryHeader", d |-> d, body |-> <<>>]
\* f"## System Note - {HH:MM}\n\n"
SystemNoteHeading == [k |-> "SystemNoteHeading", d |-> 0, body |-> <<>>]
\* "New day started. Previous entries are in the previous day's file.\n\n"
SystemNoteText == [k |-> "SystemNoteText", d |-> 0, body |-> <<>>]
\* f"\n\n## Entry at {timestamp}\n\n"
EntryHeading == [k |-> "EntryHeading", d |-> 0, body |-> <<>>]
\* file.write(organized_entry)
EntryText(text) == [k |-> "EntryText", d |-> 0, body |-> text]
\* f"\n--- Added on {timestamp} ---\n"
TodoAdded(d) == [k |-> "TodoAdded", d |-> d, body |-> <<>>]
\* f"- {item}\n"
TodoLine(item) == [k |-> "TodoLine", d |-> 0, body |-> item]

\* the transcript the speech-to-text endpoint returns for audio file f
TranscriptOf(f) == IF f = 1 THEN <<"ta">> ELSE IF f = 2 THEN <<"tb">> ELSE <<"tc">>

\* save_transcriptions: f"# Transcriptions {now}\n\n"
TranscriptionsHeader == <<"#", "sp", "a", "nl", "nl">>
\* save_transcriptions: f"\n--- Transcription {i+1} ---\n\n", transcript, "\n\n"
TranscriptionBlock(transcript) ==
  <<"nl", "-", "a", "nl", "nl">> \o transcript \o <<"nl", "nl">>

RECURSIVE TranscriptionBlocks(_)
TranscriptionBlocks(transcripts) ==
  IF transcripts = <<>> THEN <<>>
  ELSE TranscriptionBlock(Head(transcripts)) \o TranscriptionBlocks(Tail(transcripts))

\* transcribe_config.py, OUTPUT_CONFIG["append_output"]
append_output == FALSE

\* save_transcriptions(transcripts, output_file, append), on success
save_transcriptions(transcripts, file, append) ==
  IF append
  THEN FileOf(file.content \o TranscriptionBlocks(transcripts))
  ELSE FileOf(TranscriptionsHeader \o TranscriptionBlocks(transcripts))

\* find_audio_files: the files of the directory in listing order, taken to
\* be ascending
RECURSIVE Listing(_)
Listing(S) ==
  IF S = {} THEN <<>>
  ELSE LET f == CHOOSE x \in S : \A y \in S : x <= y
       IN <<f>> \o Listing(S \ {f})

\* transcribe_audio_files: the transcripts of the files that got one
RECURSIVE TranscriptsOf(_, _)
TranscriptsOf(files, ok) ==
  IF files = <<>> THEN <<>>
  ELSE (IF Head(files) \in ok THEN <<TranscriptOf(Head(files))>> ELSE <<>>)
       \o TranscriptsOf(Tail(files), ok)

\* an emptied file is read like any other
read_transcription_file_Blank(file) ==
  IF ~file.exists THEN [found |-> FALSE, content |-> <<>>]
  ELSE [found |-> TRUE, content |-> file.content]

\* read_transcription_file: None (found = FALSE) when the file is missing or
\* holds only white space
read_transcription_file(file) ==
  IF ~file.exists \/ Strip(file.content) = <<>>
  THEN [found |-> FALSE, content |-> <<>>]
  ELSE [found |-> TRUE, content |-> file.content]

----------------------------------------------------------------------------
(* The environment of the pipeline *)

\* the model responses the completion endpoint may give in the pipeline
AnalysisSamples ==
  { HeadingLiteral("OE") \o <<"nl", "a", "nl">>
      \o HeadingLiteral("TD") \o <<"nl", "-", "sp", "b", "nl", "1", ".", "a">>,
    <<"a", "sp", "b">> }

\* values of runs_per_day the scheduler is started with
RunsPerDaySamples == {0, 24, seconds_per_day + 1}

\* n more file operations may fail
MayFail(n) == faults + n <= MaxFaults

----------------------------------------------------------------------------
(* scheduler.py: check_for_day_change and update_config_date *)

\* update_config_date(new_date): the date on disk afterwards; a failure is
\* logged and leaves the file as it was
update_config_date(old, new_date, ok) == IF ok THEN new_date ELSE old

\* the scheduler's copy of the date is left as it was
RolledDate_NotKept(today_date) == NoDate

\* lines 235 and 244: diary_config["current_date"] = today_date
RolledDate(today_date) == today_date

\* the check is made whatever the configuration says
SkipDayCheck_Never == FALSE

\* lines 196-199: not diary_config.get("auto_update_date", True)
SkipDayCheck == ~auto_update_date

\* the system note is left out
NewDayFile_NoNote(d) == FileOf(<<DiaryHeader(d)>>)

\* lines 221-229: the new diary file, header then system note
NewDayFile(d) == FileOf(<<DiaryHeader(d), SystemNoteHeading, SystemNoteText>>)

\* check_for_day_change; io names the file operation that fails: "none",
\* "create" (open(..., 'w') of the new file), "note" (the append of the
\* system note), "config" (update_config_date)
check_for_day_change(io) ==
  IF SkipDayCheck
  THEN /\ io = "none"
       /\ day_changed' = FALSE
       /\ prevCheck' = [prevCheck EXCEPT !.day = today, !.outcome = "disabled"]
       /\ UNCHANGED <<diary_config_date, cfg_date, diary>>
  ELSE IF diary_config_date = today
  THEN /\ io = "none"
       /\ day_changed' = FALSE
       /\ prevCheck' = [prevCheck EXCEPT !.day = today, !.outcome = "same"]
       /\ UNCHANGED <<diary_config_date, cfg_date, diary>>
  ELSE IF ~diary[today].exists
  THEN CASE io = "create" ->
              /\ day_changed' = FALSE
              /\ prevCheck' = [prevCheck EXCEPT !.day = today, !.outcome = "error"]
              /\ UNCHANGED <<diary_config_date, cfg_date, diary>>
         [] io = "note" ->
              /\ diary' = [diary EXCEPT ![today] = FileOf(<<DiaryHeader(today)>>)]
              /\ day_changed' = FALSE
              /\ prevCheck' = [prevCheck EXCEPT !.day = today, !.outcome = "error"]
              /\ UNCHANGED <<diary_config_date, cfg_date>>
         [] OTHER ->
              /\ diary' = [diary EXCEPT ![today] = NewDayFile(today)]
              /\ cfg_date' = update_config_date(cfg_date, today, io # "config")
              /\ diary_config_date' = RolledDate(today)
              /\ day_changed' = TRUE
              /\ prevCheck' = [day |-> today, outcome |-> "rolled",
                               rolled |-> prevCheck.rolled \cup {today}]
  ELSE /\ io \in {"none", "config"}
       /\ cfg_date' = update_config_date(cfg_date, today, io # "config")
       /\ diary_config_date' = RolledDate(today)
       /\ day_changed' = TRUE
       /\ prevCheck' = [day |-> today, outcome |-> "rolled",
                        rolled |-> prevCheck.rolled \cup {today}]
       /\ UNCHANGED diary

----------------------------------------------------------------------------
(* scheduler.py: run_pipeline *)

\* a step's failure escapes run_pipeline
AfterStep_Propagating(exit_ok, following) == [pc |-> following, raised |-> ~exit_ok]

\* the try/except around a step: a CalledProcessError is logged and the
\* pipeline goes on to the step that follows (raised = FALSE)
AfterStep(exit_ok, following) == [pc |-> following, raised |-> FALSE]

NoResults == [download |-> "none", transcribe |-> "none", process |-> "none"]

NoProc ==
  [ran |-> FALSE, transcription |-> <<>>, response |-> <<>>, returned |-> <<>>,
   items |-> <<>>, target |-> "none", date |-> 0, analysed |-> FALSE,
   appended |-> FALSE]

\* run_pipeline(), lines 251-256: the call and the day-change check
BeginPipeline ==
  /\ mainPc = "cycle" /\ pipePc = "idle"
  /\ cycles < MaxCycles
  /\ cycles' = cycles + 1
  /\ pipePc' = "download"
  /\ attempted' = <<>>
  /\ stepResult' = NoResults
  /\ proc' = NoProc
  /\ startTodo' = todo
  /\ \E io \in {"none", "create", "note", "config"} :
       /\ io # "none" => MayFail(1)
       /\ check_for_day_change(io)
       /\ ioFailed' = (io # "none")
       /\ faults' = IF io # "none" THEN faults + 1 ELSE faults
  /\ startDiary' = diary'
  /\ UNCHANGED <<fnVars, unitVars, schedVars, mainPc, auto_update_date, today, endpoint,
                 legacy, todo, outputFile, downloads, processed, organized>>

\* what follows a step: the next step, or the end of run_pipeline and
\* main's decision (interval 0: return, else sleep); a failure that escapes
\* run_pipeline ends main with exit status 1
Proceed(r, isLast) ==
  IF r.raised
  THEN /\ pipePc' = "idle" /\ mainPc' = "error_exit"
  ELSE IF isLast
  THEN /\ pipePc' = "idle"
       /\ mainPc' = IF interval_seconds = 0 THEN "returned" ELSE "sleep"
  ELSE /\ pipePc' = r.pc /\ mainPc' = mainPc

\* Step 1, lines 258-275: the download script; it may leave a new audio file
DownloadStep ==
  /\ mainPc = "cycle" /\ pipePc = "download"
  /\ attempted' = Append(attempted, "download")
  /\ \E exit_ok \in BOOLEAN, arrives \in BOOLEAN :
       /\ arrives => Cardinality(downloads \cup processed) < MaxFiles
       /\ downloads' =
            IF arrives THEN downloads \cup {Cardinality(downloads \cup processed) + 1}
            ELSE downloads
       /\ stepResult' = [stepResult EXCEPT !.download = IF exit_ok THEN "ok" ELSE "failed"]
       /\ Proceed(AfterStep(exit_ok, "transcribe"), FALSE)
  /\ UNCHANGED <<fnVars, unitVars, schedVars, cycles, auto_update_date, diary_config_date,
                 day_changed, envVars, cfg_date, diary, legacy, todo, outputFile,
                 processed, ioFailed, startDiary, startTodo,
                 prevCheck, proc, organized>>

\* Step 2, lines 277-294: openai_whisper.py main().  aborts: one of its
\* sys.exit(1) paths is taken; ok: the files the endpoint transcribes;
\* save_ok: save_transcriptions succeeds, and then every audio file found
\* is moved to the processed directory
TranscribeStep ==
  /\ mainPc = "cycle" /\ pipePc = "transcribe"
  /\ attempted' = Append(attempted, "transcribe")
  /\ \E aborts \in BOOLEAN, ok \in SUBSET downloads, save_ok \in BOOLEAN :
       LET audio_files == Listing(downloads)
           transcripts == TranscriptsOf(audio_files, ok)
           outcome == IF aborts THEN "failed"
                      ELSE IF audio_files = <<>> THEN "no_files"
                      ELSE IF transcripts = <<>> THEN "no_transcripts"
                      ELSE IF ~save_ok THEN "save_failed"
                      ELSE "saved"
           failed == IF outcome = "save_failed" THEN 1 ELSE 0
       IN /\ (outcome \in {"failed", "no_files", "no_transcripts"}) => save_ok
          /\ (outcome \in {"failed", "no_files"}) => (ok = {})
          /\ MayFail(failed)
          /\ faults' = faults + failed
          /\ outputFile' = IF outcome = "saved"
                           THEN save_transcriptions(transcripts, outputFile, append_output)
                           ELSE outputFile
          /\ downloads' = IF outcome = "saved" THEN {} ELSE downloads
          /\ processed' = IF outcome = "saved"
                          THEN processed \cup downloads ELSE processed
          /\ ioFailed' = (ioFailed \/ failed > 0)
          /\ stepResult' = [stepResult EXCEPT !.transcribe = outcome]
          /\ organized' = IF outcome = "saved" THEN FALSE ELSE organized
          /\ Proceed(AfterStep(~aborts, "process"), FALSE)
  /\ UNCHANGED <<fnVars, unitVars, schedVars, cycles, auto_update_date, diary_config_date,
                 day_changed, today, endpoint, cfg_date, diary, legacy, todo,
                 startDiary, startTodo, prevCheck, proc>>

----------------------------------------------------------------------------
(* process_transcription.py and openai_processor.process_transcription *)

\* get_diary_file_path, line 57: the date the diary file is named after
DiaryDate == IF cfg_date = NoDate THEN today ELSE cfg_date

\* the new diary file is created empty
NewDiaryFile_Empty(d) == FileOf(<<>>)

\* get_diary_file_path, lines 87-88: a new diary file holds the header
NewDiaryFile(d) == FileOf(<<DiaryHeader(d)>>)

\* the extracted section is used whatever it is
OrganizedOrTranscription_NoFallback(r, transcription) == r.entry

\* openai_processor line 221 and process_with_openai lines 226-229:
\* organized_entry or transcription (None and '' both fall back)
OrganizedOrTranscription(r, transcription) ==
  IF r.found /\ r.entry # <<>> THEN r.entry ELSE transcription

\* only the first item is listed
TodoBlock_FirstOnly(d, items) ==
  <<TodoAdded(d)>> \o [i \in 1..1 |-> TodoLine(items[i])]

\* process_with_openai lines 216-218: the block written to to_do.txt
TodoBlock(d, items) ==
  <<TodoAdded(d)>> \o [i \in 1..Len(items) |-> TodoLine(items[i])]

\* the file is opened for writing instead of appending
AppendTodo_Rewrite(file, block) == block

\* open(todo_path, 'a') and the writes
AppendTodo(file, block) == file \o block

\* process_with_openai lines 233-237: the two writes of an entry
EntryBlock(text) == <<EntryHeading, EntryText(text)>>

\* open(diary_path, 'a') and the writes; 'a' creates a missing file
AppendEntry(file, block) == FileOf(file.content \o block)

\* Step 3, lines 296-312: process_transcription.py main().
\*   create_ok: the new diary file can be created; api_ok: call_openai_api
\*   returns resp; todo_ok, append_ok, clear_ok: the writes succeed
ProcessStep ==
  /\ mainPc = "cycle" /\ pipePc = "process"
  /\ attempted' = Append(attempted, "process")
  /\ LET tr == read_transcription_file(outputFile)
     IN IF ~tr.found
        THEN /\ stepResult' = [stepResult EXCEPT !.process = "no_transcription"]
             /\ proc' = NoProc
             /\ Proceed(AfterStep(FALSE, "idle"), TRUE)
             /\ UNCHANGED <<diary, legacy, todo, outputFile, ioFailed, faults, organized>>
        ELSE \E create_ok \in BOOLEAN, api_ok \in BOOLEAN, resp \in endpoint,
                todo_ok \in BOOLEAN, append_ok \in BOOLEAN, clear_ok \in BOOLEAN :
          LET d == DiaryDate
              mustCreate == ~diary[d].exists
              target == IF mustCreate /\ ~create_ok THEN "legacy" ELSE "dated"
              diary1 == IF mustCreate /\ create_ok
                        THEN [diary EXCEPT ![d] = NewDiaryFile(d)] ELSE diary
              items == extract_todo_items(resp)
              entry == OrganizedOrTranscription(extract_organized_entry(resp), tr.content)
              block == EntryBlock(entry)
              success == api_ok /\ append_ok
              failed == (IF create_ok THEN 0 ELSE 1) + (IF todo_ok THEN 0 ELSE 1)
                        + (IF append_ok THEN 0 ELSE 1) + (IF clear_ok THEN 0 ELSE 1)
          IN \* a flag is free only where the code performs the operation
             /\ mustCreate \/ create_ok
             /\ api_ok \/ (append_ok /\ resp = CHOOSE r \in endpoint : TRUE)
             /\ (api_ok /\ items # <<>>) \/ todo_ok
             /\ success \/ clear_ok
             /\ MayFail(failed)
             /\ faults' = faults + failed
             /\ todo' = IF api_ok /\ items # <<>> /\ todo_ok
                        THEN AppendTodo(todo, TodoBlock(today, items)) ELSE todo
             /\ diary' = IF success /\ target = "dated"
                         THEN [diary1 EXCEPT ![d] = AppendEntry(diary1[d], block)]
                         ELSE diary1
             /\ legacy' = IF success /\ target = "legacy"
                          THEN AppendEntry(legacy, block) ELSE legacy
             /\ outputFile' = IF success /\ clear_ok THEN FileOf(<<>>) ELSE outputFile
             /\ ioFailed' = (ioFailed \/ failed > 0)
             /\ stepResult' = [stepResult EXCEPT !.process = IF success THEN "ok" ELSE "failed"]
             /\ proc' = [ran |-> TRUE, transcription |-> tr.content,
                         response |-> IF api_ok THEN resp ELSE <<>>,
                         returned |-> IF api_ok THEN entry ELSE <<>>,
                         items |-> IF api_ok THEN items ELSE <<>>,
                         target |-> target, date |-> d, analysed |-> api_ok,
                         appended |-> success]
             /\ organized' = (organized \/ success)
             /\ Proceed(AfterStep(success, "idle"), TRUE)
  /\ UNCHANGED <<fnVars, unitVars, schedVars, cycles, auto_update_date, diary_config_date,
                 day_changed, today, endpoint, cfg_date, downloads,
                 processed, startDiary, startTodo, prevCheck>>

----------------------------------------------------------------------------
(* scheduler.py: main *)

\* lines 351-362: the interval is computed; 0 means one cycle, then return
MainStart ==
  /\ mainPc = "start"
  /\ interval_seconds' = calculate_interval_seconds(runs_per_day)
  /\ mainPc' = "cycle"
  /\ UNCHANGED <<fnVars, unitVars, runs_per_day, pipePc, cycles, auto_update_date,
                 diary_config_date, day_changed, envVars, fileVars, obsVars>>

\* line 376: time.sleep(interval_seconds) runs to its end.  The observations
\* of the finished cycle are dropped here; run_pipeline starts them afresh.
Sleep ==
  /\ mainPc = "sleep"
  /\ mainPc' = "cycle"
  /\ attempted' = <<>>
  /\ stepResult' = NoResults
  /\ proc' = NoProc
  /\ ioFailed' = FALSE
  /\ startDiary' = diary
  /\ startTodo' = todo
  /\ UNCHANGED <<fnVars, unitVars, schedVars, pipePc, cycles, auto_update_date,
                 diary_config_date, day_changed, envVars, fileVars, prevCheck, organized>>

\* the signal ends the scheduler with its error exit
OnKeyboardInterrupt_ErrorExit(in_loop) == "error_exit"

\* the signal is handled in run-once mode as well
OnKeyboardInterrupt_AlwaysCaught(in_loop) == "stopped"

\* lines 364-380: the try block holds the loop only.  A KeyboardInterrupt
\* raised inside it is caught, logged, and main returns ("stopped"); raised
\* in run-once mode (lines 357-362) it leaves main uncaught ("interrupted")
OnKeyboardInterrupt(in_loop) == IF in_loop THEN "stopped" ELSE "interrupted"

\* lines 378-380: KeyboardInterrupt during the sleep
Interrupt ==
  /\ mainPc = "sleep"
  /\ mainPc' = OnKeyboardInterrupt(TRUE)
  /\ UNCHANGED <<fnVars, unitVars, schedVars, pipePc, cycles, auto_update_date,
                 diary_config_date, day_changed, envVars, fileVars, obsVars>>

\* the calendar, read by datetime.now().  The code reads it in
\* check_for_day_change and in the processing step only, so it is enough to
\* let the day change right before those reads: while the scheduler sleeps
\* and while the download and transcription steps run.
Midnight ==
  /\ mainPc = "sleep" \/ (mainPc = "cycle" /\ pipePc = "process")
  /\ today < MaxDay
  /\ today' = today + 1
  /\ UNCHANGED <<fnVars, unitVars, schedVars, mainVars, endpoint, faults, fileVars, obsVars>>

PipeIdle ==
  /\ mainPc = "start" /\ pipePc = "idle" /\ cycles = 0
  /\ auto_update_date = TRUE /\ diary_config_date = NoDate /\ day_changed = FALSE
  /\ today = 0 /\ endpoint = {} /\ faults = 0
  /\ cfg_date = NoDate
  /\ diary = [d \in Days |-> AbsentFile]
  /\ legacy = AbsentFile
  /\ todo = <<>>
  /\ outputFile = AbsentFile
  /\ downloads = {} /\ processed = {}
  /\ attempted = <<>>
  /\ stepResult = NoResults
  /\ ioFailed = FALSE
  /\ startDiary = [d \in Days |-> AbsentFile]
  /\ startTodo = <<>>
  /\ prevCheck = [day |-> NoDate, outcome |-> "none", rolled |-> {}]
  /\ proc = NoProc
  /\ organized = FALSE

\* the scheduler process is started: config.json is loaded, the diary file
\* of the configured date may exist from an earlier run
Init ==
  /\ FnIdle
  /\ UnitIdle
  /\ runs_per_day \in RunsPerDaySamples
  /\ interval_seconds = 0
  /\ mainPc = "start" /\ pipePc = "idle" /\ cycles = 0
  /\ auto_update_date \in BOOLEAN
  /\ cfg_date \in {NoDate, 0}
  /\ diary_config_date = cfg_date
  /\ day_changed = FALSE
  /\ today = 0 /\ endpoint = AnalysisSamples /\ faults = 0
  /\ \E kept \in BOOLEAN :
       diary = [d \in Days |-> IF kept /\ d = cfg_date THEN NewDiaryFile(d) ELSE AbsentFile]
  /\ legacy = AbsentFile
  /\ todo = <<>>
  /\ outputFile = AbsentFile
  /\ downloads = {} /\ processed = {}
  /\ attempted = <<>>
  /\ stepResult = NoResults
  /\ ioFailed = FALSE
  /\ startDiary = diary
  /\ startTodo = <<>>
  /\ prevCheck = [day |-> NoDate, outcome |-> "none", rolled |-> {}]
  /\ proc = NoProc
  /\ organized = FALSE

Next ==
  \/ MainStart
  \/ BeginPipeline
  \/ DownloadStep
  \/ TranscribeStep
  \/ ProcessStep
  \/ Sleep
  \/ Interrupt
  \/ Midnight

Spec == Init /\ [][Next]_vars

\* the processing step alone, on a transcript of one audio file and any
\* model response built from at most MaxProcParts parts
InitProcess ==
  /\ FnIdle
  /\ UnitIdle
  /\ runs_per_day = 0 /\ interval_seconds = 0
  /\ mainPc = "cycle" /\ pipePc = "process" /\ cycles = 1
  /\ auto_update_date = TRUE
  /\ cfg_date = 0 /\ diary_config_date = 0 /\ day_changed = FALSE
  /\ today = 0 /\ faults = 0
  /\ \E r \in Responses(MaxProcParts) : endpoint = {r}
  /\ \E kept \in BOOLEAN :
       diary = [d \in Days |-> IF kept /\ d = cfg_date THEN NewDiaryFile(d) ELSE AbsentFile]
  /\ legacy = AbsentFile
  /\ todo = <<>>
  /\ outputFile = save_transcriptions(<<TranscriptOf(1)>>, AbsentFile, FALSE)
  /\ downloads = {} /\ processed = {1}
  /\ attempted = <<"download", "transcribe">>
  /\ stepResult = [download |-> "ok", transcribe |-> "saved", process |-> "none"]
  /\ ioFailed = FALSE
  /\ startDiary = diary
  /\ startTodo = <<>>
  /\ prevCheck = [day |-> 0, outcome |-> "same", rolled |-> {}]
  /\ proc = NoProc
  /\ organized = FALSE

NextProcess == ProcessStep

SpecProcess == InitProcess /\ [][NextProcess]_vars

----------------------------------------------------------------------------
(* The scheduler under operator signals.  SIGINT raises KeyboardInterrupt  *)
(* in the scheduler wherever it is: in time.sleep, or in subprocess.run    *)
(* while a step runs.  run_pipeline catches subprocess.CalledProcessError  *)
(* only, so the interrupt leaves it at the step it was waiting for; the    *)
(* step's process is killed and is taken to have had no effect.            *)

\* KeyboardInterrupt while a step of the cycle runs
InterruptCycle ==
  /\ mainPc = "cycle" /\ pipePc \in {"download", "transcribe", "process"}
  /\ mainPc' = OnKeyboardInterrupt(interval_seconds # 0)
  /\ UNCHANGED <<fnVars, unitVars, schedVars, pipePc, cycles, auto_update_date,
                 diary_config_date, day_changed, envVars, fileVars, obsVars>>

\* as Init, with no file operation failing in the run
InitCancel ==
  /\ FnIdle
  /\ UnitIdle
  /\ runs_per_day \in RunsPerDaySamples
  /\ interval_seconds = 0
  /\ mainPc = "start" /\ pipePc = "idle" /\ cycles = 0
  /\ auto_update_date \in BOOLEAN
  /\ cfg_date \in {NoDate, 0}
  /\ diary_config_date = cfg_date
  /\ day_changed = FALSE
  /\ today = 0 /\ endpoint = AnalysisSamples /\ faults = MaxFaults
  /\ diary = [d \in Days |-> IF d = cfg_date THEN NewDiaryFile(d) ELSE AbsentFile]
  /\ legacy = AbsentFile
  /\ todo = <<>>
  /\ outputFile = AbsentFile
  /\ downloads = {} /\ processed = {}
  /\ attempted = <<>>
  /\ stepResult = NoResults
  /\ ioFailed = FALSE
  /\ startDiary = diary
  /\ startTodo = <<>>
  /\ prevCheck = [day |-> NoDate, outcome |-> "none", rolled |-> {}]
  /\ proc = NoProc
  /\ organized = FALSE

NextCancel == Next \/ InterruptCycle

SpecCancel == InitCancel /\ [][NextCancel]_vars

----------------------------------------------------------------------------
(* Harness for the pure functions: the input is drawn in Init, one action   *)
(* per function applies it.                                                 *)

SchedIdle ==
  /\ runs_per_day = 0 /\ interval_seconds = 0

CallExtractTodoItems ==
  /\ fnPc = "input"
  /\ todo_matched' = TodoSectionOf(analysis).matched
  /\ todo_section' = TodoSectionOf(analysis).section
  /\ todo_items' = extract_todo_items(analysis)
  /\ fnPc' = "todo_done"
  /\ UNCHANGED <<analysis, entry_found, organized_entry, schedVars, pipeVars, unitVars>>

CallExtractOrganizedEntry ==
  /\ fnPc = "input"
  /\ LET r == extract_organized_entry(analysis)
     IN /\ entry_found' = r.found
        /\ organized_entry' = r.entry
  /\ fnPc' = "entry_done"
  /\ UNCHANGED <<analysis, todo_matched, todo_section, todo_items, schedVars, pipeVars, unitVars>>

InitExtract ==
  /\ analysis \in Responses(MaxParts)
  /\ fnPc = "input"
  /\ todo_matched = FALSE /\ todo_section = <<>> /\ todo_items = <<>>
  /\ entry_found = FALSE /\ organized_entry = <<>>
  /\ SchedIdle
  /\ PipeIdle
  /\ UnitIdle

NextExtract == CallExtractTodoItems \/ CallExtractOrganizedEntry

SpecExtract == InitExtract /\ [][NextExtract]_vars

CallCalculateInterval ==
  /\ fnPc = "input"
  /\ interval_seconds' = calculate_interval_seconds(runs_per_day)
  /\ fnPc' = "interval_done"
  /\ UNCHANGED <<analysis, todo_matched, todo_section, todo_items,
                 entry_found, organized_entry, runs_per_day, pipeVars, unitVars>>

InitInterval ==
  /\ runs_per_day \in 0..MaxRunsPerDay
  /\ interval_seconds = 0
  /\ FnIdle
  /\ PipeIdle
  /\ UnitIdle

NextInterval == CallCalculateInterval

SpecInterval == InitInterval /\ [][NextInterval]_vars

----------------------------------------------------------------------------
(* Vocabulary of the properties, written without the operators of the model *)

MinOf(S) == CHOOSE x \in S : \A y \in S : x <= y
MaxOf(S) == CHOOSE x \in S : \A y \in S : y <= x

\* t without its leading and trailing white space
Trimmed(t) ==
  LET ns == {i \in 1..Len(t) : t[i] \notin {"sp", "nl"}}
  IN IF ns = {} THEN <<>> ELSE SubSeq(t, MinOf(ns), MaxOf(ns))

\* positions of text at which the '## NAME' marker begins
MarkerAt(text, name) ==
  {i \in 1..(Len(text) - 3) :
     text[i] = "#" /\ text[i + 1] = "#" /\ text[i + 2] = "sp" /\ text[i + 3] = name}

\* those of them that are followed by a white-space character
SpacedMarkerAt(text, name) ==
  {i \in MarkerAt(text, name) :
     i + 4 <= Len(text) /\ text[i + 4] \in {"sp", "nl"}}

\* the trimmed text from position from up to the next '##' or the end
TextUpToNextMarker(text, from) ==
  LET hashes == {k \in from..(Len(text) - 1) : text[k] = "#" /\ text[k + 1] = "#"}
      last == IF hashes = {} THEN Len(text) ELSE MinOf(hashes) - 1
  IN Trimmed(SubSeq(text, from, last))

\* the lines of a section: the stretches between consecutive line feeds
LineBreaks(t) == {0, Len(t) + 1} \cup {i \in 1..Len(t) : t[i] = "nl"}
LineFrom(t, b) ==
  SubSeq(t, b + 1, MinOf({c \in LineBreaks(t) : c > b}) - 1)
LineStarts(t) == LineBreaks(t) \ {Len(t) + 1}

\* a line that, white space aside, begins with '-', '*' or digits and a dot
DigitsThenDot(l) ==
  {n \in 1..(Len(l) - 1) : l[n + 1] = "." /\ \A j \in 1..n : l[j] = "1"}
IsListLine(line) ==
  LET l == Trimmed(line)
  IN l # <<>> /\ (l[1] \in {"-", "*"} \/ DigitsThenDot(l) # {})
WithoutMarker(line) ==
  LET l == Trimmed(line)
  IN IF l[1] \in {"-", "*"} THEN Trimmed(SubSeq(l, 2, Len(l)))
     ELSE Trimmed(SubSeq(l, MinOf(DigitsThenDot(l)) + 2, Len(l)))

----------------------------------------------------------------------------
(* Properties of calculate_interval_seconds *)

\* C3: for every integer runs_per_day > 0 calculate_interval_seconds returns
\* 86400 / runs_per_day truncated to whole seconds (the largest n with
\* n * runs_per_day <= 86400), and for runs_per_day = 0 it returns the
\* run-once sentinel 0.
C3_IntervalTruncated ==
  fnPc = "interval_done" =>
    IF runs_per_day = 0
    THEN interval_seconds = 0
    ELSE /\ interval_seconds * runs_per_day <= 86400
         /\ 86400 < (interval_seconds + 1) * runs_per_day

C3_Witness ==
  fnPc = "interval_done" /\ runs_per_day = 7 /\ interval_seconds = 12342

----------------------------------------------------------------------------
(* Properties of the extractors *)

\* C9: extract_todo_items returns an empty list when the TO-DO ITEMS section
\* is absent or contains the literal 'No to-do items detected'; otherwise it
\* returns, in order, one string per line of the section that (white space
\* aside) begins with '-', '*' or a number followed by a dot, with that
\* leading marker stripped.
C9_TodoItems ==
  fnPc = "todo_done" =>
    IF ~todo_matched \/ (\E i \in 1..Len(todo_section) : todo_section[i] = "ND")
    THEN todo_items = <<>>
    ELSE LET listed == {b \in LineStarts(todo_section) :
                          IsListLine(LineFrom(todo_section, b))}
             Rank(b) == Cardinality({c \in listed : c <= b})
         IN /\ Len(todo_items) = Cardinality(listed)
            /\ \A b \in listed :
                 todo_items[Rank(b)] = WithoutMarker(LineFrom(todo_section, b))

C9_Witness ==
  /\ fnPc = "todo_done"
  /\ Len(todo_items) = 2
  /\ todo_items[1] = <<"a">>
  /\ \E i \in 1..Len(todo_section) : todo_section[i] = "."

\* C10 as stated: section extraction returns the trimmed text between the
\* named '## HEADING' marker and the next '##' or the end of the text, and
\* 'not found' exactly when the heading is absent.
C10_SectionAsStated ==
  /\ fnPc = "entry_done" =>
       IF MarkerAt(analysis, "OE") # {}
       THEN /\ entry_found
            /\ organized_entry =
                 TextUpToNextMarker(analysis, MinOf(MarkerAt(analysis, "OE")) + 4)
       ELSE ~entry_found
  /\ fnPc = "todo_done" =>
       IF MarkerAt(analysis, "TD") # {}
       THEN /\ todo_matched
            /\ todo_section =
                 TextUpToNextMarker(analysis, MinOf(MarkerAt(analysis, "TD")) + 4)
       ELSE ~todo_matched

\* C10 amended: the section is found exactly when some occurrence of the
\* '## HEADING' marker is followed by a white-space character; the result is
\* then the trimmed text between the first such occurrence and the next
\* '##' or the end of the text; otherwise the result is 'not found'.
C10_SectionAfterSpacedMarker ==
  /\ fnPc = "entry_done" =>
       IF SpacedMarkerAt(analysis, "OE") # {}
       THEN /\ entry_found
            /\ organized_entry =
                 TextUpToNextMarker(analysis, MinOf(SpacedMarkerAt(analysis, "OE")) + 4)
       ELSE ~entry_found
  /\ fnPc = "todo_done" =>
       IF SpacedMarkerAt(analysis, "TD") # {}
       THEN /\ todo_matched
            /\ todo_section =
                 TextUpToNextMarker(analysis, MinOf(SpacedMarkerAt(analysis, "TD")) + 4)
       ELSE ~todo_matched

C10_Witness ==
  /\ fnPc = "entry_done"
  /\ entry_found
  /\ organized_entry = <<"a">>
  /\ MarkerAt(analysis, "TD") # {}
  /\ Len(analysis) = 10

----------------------------------------------------------------------------
(* Properties of the scheduler and of the pipeline *)

PipelineSteps == <<"download", "transcribe", "process">>

IsPrefixOf(s, t) == Len(s) <= Len(t) /\ SubSeq(t, 1, Len(s)) = s

\* run_pipeline has returned and main has not yet gone on to the next cycle
PipelineOver == pipePc = "idle" /\ mainPc \in {"sleep", "returned", "stopped"}

\* C1: whichever of the download, transcription and processing steps fail,
\* run_pipeline attempts all three, in the order download, transcribe,
\* process, and returns normally: no failure of a step reaches its caller.
C1_AllStepsAttempted ==
  /\ IsPrefixOf(attempted, PipelineSteps)
  /\ mainPc # "error_exit"
  /\ PipelineOver => attempted = PipelineSteps
  /\ (pipePc = "idle" /\ mainPc = "cycle" /\ cycles > 0) => attempted = <<>>

C1_Witness ==
  /\ PipelineOver
  /\ attempted = PipelineSteps
  /\ stepResult.download = "failed"
  /\ stepResult.transcribe = "failed"
  /\ stepResult.process \in {"failed", "no_transcription"}

\* C2 as stated: main runs one cycle and returns exactly when runs_per_day
\* is 0; for every runs_per_day > 0 it does not return but sleeps one
\* interval after each cycle and goes on.
C2_RunsOnceOnlyForZero ==
  /\ mainPc = "returned" => runs_per_day = 0
  /\ (PipelineOver /\ runs_per_day > 0) => mainPc \in {"sleep", "stopped"}
  /\ (PipelineOver /\ runs_per_day = 0) => (mainPc = "returned" /\ cycles = 1)

\* the cycle that is over ran its three steps with exit status 0 and no
\* file operation failed in it
CleanCycle ==
  /\ PipelineOver
  /\ stepResult = [download |-> "ok", transcribe |-> "saved", process |-> "ok"]
  /\ ~ioFailed

\* the diary has gained, since the steps began, one entry block holding
\* text in the file of day d (created with its header if it was missing)
\* and nothing else
GainedOneEntry(d, text) ==
  /\ diary[d].exists
  /\ diary[d].content =
       (IF startDiary[d].exists THEN startDiary[d].content ELSE <<DiaryHeader(d)>>)
       \o <<EntryHeading, EntryText(text)>>
  /\ \A e \in Days \ {d} : diary[e] = startDiary[e]
  /\ legacy = AbsentFile

\* the block of to_do.txt for the items: the 'Added on' line, then one
\* '- item' line per item
DashLines(items) == [i \in 1..Len(items) |-> TodoLine(items[i])]

\* C4 as stated: after a single clean run on one audio file the dated diary
\* file has gained exactly one entry block holding the entry, to_do.txt has
\* gained one block listing each extracted item, and the scheduler returned.
C4_SingleRunAsStated ==
  (runs_per_day = 0 /\ CleanCycle /\ Cardinality(processed) = 1) =>
    /\ mainPc = "returned" /\ cycles = 1
    /\ proc.target = "dated"
    /\ GainedOneEntry(proc.date, proc.returned)
    /\ \E d \in Days : todo = startTodo \o <<TodoAdded(d)>> \o DashLines(proc.items)

\* C4 amended: as above, but to_do.txt gains the block only when at least
\* one to-do item was extracted; with none it is left as it was.
C4_SingleRun ==
  (runs_per_day = 0 /\ CleanCycle /\ Cardinality(processed) = 1) =>
    /\ mainPc = "returned" /\ cycles = 1
    /\ proc.target = "dated"
    /\ GainedOneEntry(proc.date, proc.returned)
    /\ IF proc.items = <<>>
       THEN todo = startTodo
       ELSE \E d \in Days : todo = startTodo \o <<TodoAdded(d)>> \o DashLines(proc.items)

C4_Witness ==
  /\ runs_per_day = 0 /\ CleanCycle /\ mainPc = "returned"
  /\ processed = {1}
  /\ proc.returned = <<"a">>
  /\ proc.items = << <<"b">>, <<"a">> >>
  /\ Len(todo) = 3

\* the call of check_for_day_change at the head of a cycle leaves the
\* configuration and the diary files alone and reports no rollover
CheckIsNoOp ==
  /\ ~day_changed'
  /\ cfg_date' = cfg_date
  /\ diary_config_date' = diary_config_date
  /\ diary' = diary

\* C5 as stated: a call of check_for_day_change on the day of the previous
\* call reports no rollover and changes neither configuration nor diary.
C5_SecondCallNoOpAsStated ==
  [][(cycles' = cycles + 1 /\ prevCheck.day = today) => CheckIsNoOp]_vars

\* C5 amended: a rollover is reported at most once per calendar day, and a
\* call on the day of the previous call is a no-op unless that previous call
\* failed while creating the new diary file, in which case it is retried.
C5_RolloverOncePerDay ==
  [][cycles' = cycles + 1 =>
       /\ day_changed' => today \notin prevCheck.rolled
       /\ (prevCheck.day = today /\ prevCheck.outcome # "error") => CheckIsNoOp]_vars

C5_Witness ==
  /\ cycles = 2
  /\ prevCheck.day = today
  /\ prevCheck.outcome = "same"
  /\ today \in prevCheck.rolled
  /\ ~day_changed

\* every entry text of the file follows an 'Entry at' heading of its own
EntriesUnderHeadings(file) ==
  \A i \in 1..Len(file.content) :
    /\ file.content[i].k = "EntryText" => (i > 1 /\ file.content[i - 1] = EntryHeading)
    /\ file.content[i] = EntryHeading =>
         (i < Len(file.content) /\ file.content[i + 1].k = "EntryText")

BeginsWithHeader(file) ==
  Len(file.content) >= 1 /\ file.content[1].k = "DiaryHeader"

C7_TodoAppendOnly ==
  [][IsPrefixOf(todo, todo')]_vars

C7_Witness ==
  /\ startTodo # <<>>
  /\ Len(todo) > Len(startTodo)
  /\ IsPrefixOf(startTodo, todo)

\* the file the processing step appended its entry to
TargetFile == IF proc.target = "dated" THEN diary[proc.date] ELSE legacy

\* C8: when no non-empty ORGANIZED ENTRY section can be extracted from the
\* model response, the entry returned by process_transcription and appended
\* to the diary is the raw transcript verbatim; otherwise it is the
\* extracted section.
C8_FallbackToTranscript ==
  (proc.ran /\ proc.analysed) =>
    LET at == SpacedMarkerAt(proc.response, "OE")
        section == IF at = {} THEN <<>>
                   ELSE TextUpToNextMarker(proc.response, MinOf(at) + 4)
        expected == IF section = <<>> THEN proc.transcription ELSE section
    IN /\ proc.returned = expected
       /\ proc.appended =>
            /\ Len(TargetFile.content) >= 2
            /\ SubSeq(TargetFile.content, Len(TargetFile.content) - 1,
                      Len(TargetFile.content)) = <<EntryHeading, EntryText(expected)>>

C8_Witness ==
  /\ proc.ran /\ proc.analysed /\ proc.appended
  /\ MarkerAt(proc.response, "OE") # {}
  /\ proc.returned = proc.transcription
  /\ TargetFile.content[Len(TargetFile.content)] = EntryText(proc.transcription)

----------------------------------------------------------------------------
(* openai_whisper.py: find_audio_files.  A file name is a sequence of      *)
(* characters; "a" stands for any character that occurs in no extension.   *)

MaxEntries == 2        \* entries of the directory handed to find_audio_files

fnData == <<analysis, todo_matched, todo_section, todo_items, entry_found, organized_entry>>

\* line 92
audio_extensions ==
  << <<".", "m", "p", "3">>, <<".", "m", "4", "a">>, <<".", "w", "a", "v">>,
     <<".", "o", "g", "g">>, <<".", "f", "l", "a", "c">>, <<".", "a", "a", "c">>,
     <<".", "m", "p", "4">> >>

\* the case of the characters is kept
LowerChar_Identity(c) == c

\* str.lower on one character
LowerChar(c) ==
  CASE c = "A" -> "a" [] c = "C" -> "c" [] c = "F" -> "f" [] c = "G" -> "g"
    [] c = "L" -> "l" [] c = "M" -> "m" [] c = "O" -> "o" [] c = "P" -> "p"
    [] c = "V" -> "v" [] c = "W" -> "w" [] OTHER -> c

Lower(name) == [i \in 1..Len(name) |-> LowerChar(name[i])]

\* str.endswith
EndsWith(s, suffix) ==
  /\ Len(suffix) <= Len(s)
  /\ SubSeq(s, Len(s) - Len(suffix) + 1, Len(s)) = suffix

\* line 104: any(file.lower().endswith(ext) for ext in audio_extensions)
AnyExtension(file) ==
  \E k \in 1..Len(audio_extensions) : EndsWith(Lower(file), audio_extensions[k])

\* lines 102-105: the scan of the listing, in listing order
RECURSIVE ScanListing(_)
ScanListing(entries) ==
  IF entries = <<>> THEN <<>>
  ELSE LET e == Head(entries)
       IN (IF e.kind = "file" /\ AnyExtension(e.name) THEN <<e.name>> ELSE <<>>)
          \o ScanListing(Tail(entries))

\* find_audio_files(directory): a missing directory gives the empty list
\* (line 96); so does one whose listing raises (lines 106-107)
find_audio_files(dir) ==
  IF ~dir.exists THEN <<>>
  ELSE IF ~dir.listable THEN <<>>
  ELSE ScanListing(dir.entries)

\* the file names tried
NameSamples ==
  { <<"a">> \o audio_extensions[k] : k \in 1..Len(audio_extensions) }
  \cup { <<"a", ".", "M", "P", "3">>, <<"c", ".", "W", "A", "V">>, <<"a", ".", "F", "l", "a", "c">>,
         <<"b", ".", "t", "x", "t">>, <<"a", ".", "m", "p", "3", ".", "t", "x", "t">>,
         <<"a", "m", "p", "3">>, <<".", "m", "p", "3">>, <<"a", ".", "m", "p">>,
         <<"m", "p", "3", ".">> }

\* an entry of a directory: a regular file, or a sub-directory that holds an
\* audio file of its own
EntrySamples ==
  [name : NameSamples, kind : {"file"}, inside : {<<>>}]
  \cup [name : NameSamples, kind : {"dir"}, inside : {<< <<"a", ".", "m", "p", "3">> >>}]

RECURSIVE Listings(_)
Listings(n) ==
  IF n = 0 THEN {<<>>}
  ELSE LET prev == Listings(n - 1)
       IN prev \cup {Append(l, e) : l \in prev, e \in EntrySamples}

DistinctNames(l) ==
  \A i, j \in 1..Len(l) : i # j => l[i].name # l[j].name

DirectorySamples ==
  {NoDirectory}
  \cup [exists : {TRUE}, listable : BOOLEAN,
        entries : {l \in Listings(MaxEntries) : DistinctNames(l)}]

CallFindAudioFiles ==
  /\ fnPc = "input"
  /\ found_files' = find_audio_files(directory)
  /\ fnPc' = "find_done"
  /\ UNCHANGED <<fnData, schedVars, pipeVars, directory, chunkVars, transVars, apiVars, webVars>>

InitFind ==
  /\ FnIdle /\ SchedIdle /\ PipeIdle
  /\ directory \in DirectorySamples
  /\ found_files = <<>>
  /\ ChunkIdle /\ TransIdle /\ ApiIdle /\ WebIdle

NextFind == CallFindAudioFiles

SpecFind == InitFind /\ [][NextFind]_vars

\* the extensions, written out in lower case
ExtensionTexts ==
  { <<".", "m", "p", "3">>, <<".", "m", "4", "a">>, <<".", "w", "a", "v">>,
    <<".", "o", "g", "g">>, <<".", "f", "l", "a", "c">>, <<".", "a", "a", "c">>,
    <<".", "m", "p", "4">> }

UpperOf(c) ==
  CASE c = "a" -> "A" [] c = "c" -> "C" [] c = "f" -> "F" [] c = "g" -> "G"
    [] c = "l" -> "L" [] c = "m" -> "M" [] c = "o" -> "O" [] c = "p" -> "P"
    [] c = "v" -> "V" [] c = "w" -> "W" [] OTHER -> c

\* name ends in ext, upper and lower case taken for the same
EndsInIgnoringCase(name, ext) ==
  /\ Len(name) >= Len(ext)
  /\ \A i \in 1..Len(ext) :
       name[Len(name) - Len(ext) + i] \in {ext[i], UpperOf(ext[i])}

\* the regular files directly inside the directory that carry an audio
\* extension
AudioFilesInside(dir) ==
  {dir.entries[i].name : i \in {j \in 1..Len(dir.entries) :
      /\ dir.entries[j].kind = "file"
      /\ \E ext \in ExtensionTexts : EndsInIgnoringCase(dir.entries[j].name, ext)}}

ListsExactly(list, S) ==
  /\ {list[i] : i \in 1..Len(list)} = S
  /\ Len(list) = Cardinality(S)

\* C11 as stated: find_audio_files returns exactly the regular files
\* directly inside the directory whose name ends, case-insensitively, in one
\* of the seven extensions, and the empty list when the directory does not
\* exist.
C11_ExactlyTheAudioFilesAsStated ==
  fnPc = "find_done" =>
    IF directory.exists
    THEN ListsExactly(found_files, AudioFilesInside(directory))
    ELSE found_files = <<>>

\* C11 amended: the same for a directory that can be listed; a directory
\* that does not exist or whose listing fails gives the empty list.
C11_ExactlyTheAudioFiles ==
  fnPc = "find_done" =>
    IF directory.exists /\ directory.listable
    THEN ListsExactly(found_files, AudioFilesInside(directory))
    ELSE found_files = <<>>

C11_Witness ==
  /\ fnPc = "find_done"
  /\ directory.exists /\ directory.listable
  /\ Len(directory.entries) = 2
  /\ directory.entries[1] = [name |-> <<"c", ".", "W", "A", "V">>, kind |-> "file", inside |-> <<>>]
  /\ directory.entries[2].name = <<"b", ".", "t", "x", "t">>
  /\ found_files = << <<"c", ".", "W", "A", "V">> >>

----------------------------------------------------------------------------
(* openai_whisper.py: chunk_audio_file.  Durations are whole time units.   *)

MaxDuration == 12      \* longest estimated duration tried
MaxChunkSec == 4       \* longest maximum chunk duration tried

\* file_path, and the chunk file written for segment i (i from 0)
OriginalPath == [kind |-> "original", i |-> 0]
ChunkPath(i) == [kind |-> "chunk", i |-> i]

\* a file as long as the maximum is cut as well
NeedsNoChunking_Strict(d, max) == d < max

\* line 252: duration <= max_chunk_size_sec
NeedsNoChunking(d, max) == d <= max

\* no segment is added to the whole ones
num_chunks_Whole(d, max) == IntOfQuotient(d, max)

\* line 260: int(duration / max_chunk_size_sec) + 1
num_chunks(d, max) == IntOfQuotient(d, max) + 1

\* lines 269-280: the ffmpeg command of segment i: -ss i * max, -t max
SegmentRequest(i, max) ==
  [start |-> i * max, length |-> max, out |-> ChunkPath(i)]

\* line 285: the transcoder leaves a file with content for a segment that
\* starts inside the audio
HasContent(seg, d) == seg.start < d

RECURSIVE KeptChunks(_, _)
KeptChunks(segs, d) ==
  IF segs = <<>> THEN <<>>
  ELSE (IF HasContent(Head(segs), d) THEN <<Head(segs).out>> ELSE <<>>)
       \o KeptChunks(Tail(segs), d)

\* chunk_audio_file: the segments requested and the list returned.  An
\* exception (calculate_duration raises, ffmpeg cannot be started) gives the
\* original path, lines 291-293.
chunk_audio_file(d, max, tc) ==
  IF d = NoDuration
  THEN [requests |-> <<>>, chunks |-> <<OriginalPath>>]
  ELSE IF NeedsNoChunking(d, max)
  THEN [requests |-> <<>>, chunks |-> <<OriginalPath>>]
  ELSE LET segs == [k \in 1..num_chunks(d, max) |-> SegmentRequest(k - 1, max)]
       IN IF tc = "missing"
          THEN [requests |-> SubSeq(segs, 1, 1), chunks |-> <<OriginalPath>>]
          ELSE [requests |-> segs, chunks |-> KeptChunks(segs, d)]

CallChunkAudioFile ==
  /\ fnPc = "input"
  /\ LET r == chunk_audio_file(duration, max_chunk_size_sec, transcoder)
     IN /\ requests' = r.requests
        /\ chunk_files' = r.chunks
  /\ fnPc' = "chunk_done"
  /\ UNCHANGED <<fnData, schedVars, pipeVars, findVars, duration,
                 max_chunk_size_sec, transcoder, transVars, apiVars, webVars>>

InitChunk ==
  /\ FnIdle /\ SchedIdle /\ PipeIdle /\ FindIdle
  /\ duration \in {NoDuration} \cup 0..MaxDuration
  /\ max_chunk_size_sec \in 1..MaxChunkSec
  /\ transcoder \in {"ok", "missing"}
  /\ requests = <<>> /\ chunk_files = <<>>
  /\ TransIdle /\ ApiIdle /\ WebIdle

NextChunk == CallChunkAudioFile

SpecChunk == InitChunk /\ [][NextChunk]_vars

\* C12: whenever the estimated duration is less than or equal to the
\* maximum chunk duration, chunk_audio_file returns the one-element list
\* holding the original path and asks nothing of the transcoder.
C12_ShortFileUnchanged ==
  (fnPc = "chunk_done" /\ duration # NoDuration /\ duration <= max_chunk_size_sec) =>
    /\ chunk_files = <<OriginalPath>>
    /\ requests = <<>>

C12_Witness ==
  /\ fnPc = "chunk_done"
  /\ duration = 3 /\ max_chunk_size_sec = 3
  /\ chunk_files = <<OriginalPath>>
  /\ requests = <<>>

\* the least n with n * max >= d
CeilOfQuotient(d, max) == CHOOSE n \in 0..d : n * max >= d /\ (n - 1) * max < d

\* segment k (from 1) starts at (k - 1) * max and is max long
Sequential(reqs, max) ==
  \A k \in 1..Len(reqs) : reqs[k].start = (k - 1) * max /\ reqs[k].length = max

\* C19 as stated: when the estimated duration d exceeds the maximum m,
\* exactly ceil(d / m) segments are requested, segment i starting at i * m
\* with length m, none of them starting at or beyond the end of the audio.
C19_CeilSegmentsAsStated ==
  (fnPc = "chunk_done" /\ duration # NoDuration /\ duration > max_chunk_size_sec) =>
    /\ Len(requests) = CeilOfQuotient(duration, max_chunk_size_sec)
    /\ Sequential(requests, max_chunk_size_sec)
    /\ \A k \in 1..Len(requests) : requests[k].start < duration

\* C19 amended: with the transcoder available, floor(d / m) + 1 segments
\* are requested, segment i starting at i * m with length m.  That is
\* ceil(d / m) segments, all starting inside the audio, unless d is a
\* multiple of m: then one more segment is requested, which starts at the
\* end of the audio.  Without the transcoder the first request fails and
\* no other is made.
C19_FloorPlusOneSegments ==
  (fnPc = "chunk_done" /\ duration # NoDuration /\ duration > max_chunk_size_sec) =>
    /\ Sequential(requests, max_chunk_size_sec)
    /\ IF transcoder = "missing"
       THEN Len(requests) = 1 /\ chunk_files = <<OriginalPath>>
       ELSE IF duration % max_chunk_size_sec = 0
       THEN /\ Len(requests) = CeilOfQuotient(duration, max_chunk_size_sec) + 1
            /\ requests[Len(requests)].start = duration
            /\ \A k \in 1..(Len(requests) - 1) : requests[k].start < duration
       ELSE /\ Len(requests) = CeilOfQuotient(duration, max_chunk_size_sec)
            /\ \A k \in 1..Len(requests) : requests[k].start < duration

C19_Witness ==
  /\ fnPc = "chunk_done"
  /\ transcoder = "ok"
  /\ duration = 7 /\ max_chunk_size_sec = 3
  /\ Len(requests) = 3
  /\ requests[3] = [start |-> 6, length |-> 3, out |-> ChunkPath(2)]
  /\ chunk_files = <<ChunkPath(0), ChunkPath(1), ChunkPath(2)>>

----------------------------------------------------------------------------
(* Properties of the scheduler under operator signals *)

\* the scheduler has ended
Ended == mainPc \in {"returned", "stopped", "interrupted", "error_exit"}

\* C13: a cancellation signal received while the scheduler sleeps between
\* cycles moves it at once to the terminal Stopped state: the sleep is not
\* completed, no further cycle is started, and the process ends cleanly,
\* not with an error exit.
C13_StoppedFromSleep ==
  /\ [][(mainPc = "sleep" /\ mainPc' \notin {"sleep", "cycle"}) =>
          /\ mainPc' = "stopped"
          /\ UNCHANGED <<pipePc, cycles, fileVars>>]_vars
  /\ [][mainPc = "stopped" =>
          (mainPc' = "stopped" /\ UNCHANGED <<pipePc, cycles, fileVars>>)]_vars

C13_Witness ==
  /\ mainPc = "stopped"
  /\ pipePc = "idle"
  /\ cycles = 1
  /\ attempted = PipelineSteps

\* C18 as stated: a cancellation signal that arrives while a cycle is
\* running does not interrupt it: the scheduler never ends with a cycle
\* left unfinished.
C18_CycleNeverCutShortAsStated ==
  Ended => pipePc = "idle"

\* C18 amended: the sleep is not the only interruptible operation.  A
\* signal that arrives while a cycle is running ends the scheduler at the
\* step it was waiting for: that step and the remaining ones are not
\* carried out and no file is changed any more.  In loop mode the scheduler
\* stops cleanly; in run-once mode the KeyboardInterrupt leaves main
\* uncaught.
C18_CycleCutShort ==
  /\ [][(mainPc = "cycle" /\ Ended') =>
          \/ pipePc' = "idle" /\ mainPc' = "returned" /\ attempted' = PipelineSteps
          \/ /\ pipePc' = pipePc /\ pipePc # "idle"
             /\ mainPc' = (IF interval_seconds # 0 THEN "stopped" ELSE "interrupted")
             /\ UNCHANGED <<attempted, fileVars>>]_vars
  /\ [][Ended => UNCHANGED <<mainPc, pipePc, attempted, fileVars>>]_vars

C18_Witness ==
  /\ mainPc = "stopped"
  /\ pipePc = "transcribe"
  /\ attempted = <<"download">>
  /\ cycles = 2

\* C14: when auto_update_date is disabled, check_for_day_change reports no
\* rollover and leaves the configured date, the configuration file and
\* every diary file unchanged, whatever the calendar date is.
C14_NoRolloverWhenDisabled ==
  [][(cycles' = cycles + 1 /\ ~auto_update_date) => CheckIsNoOp]_vars

C14_Witness ==
  /\ ~auto_update_date
  /\ cycles = 2
  /\ prevCheck = [day |-> 1, outcome |-> "disabled", rolled |-> {}]
  /\ today = 1
  /\ cfg_date = 0 /\ diary_config_date = 0
  /\ ~diary[1].exists

----------------------------------------------------------------------------
(* openai_whisper.py: transcribe_with_whisper1, transcribe_with_4o and     *)
(* transcribe_audio_files.  The loop over files and chunks is run one      *)
(* transcription call at a time.                                           *)

MaxRecordings == 2     \* audio files handed to transcribe_audio_files
MaxClock == 1          \* seconds that pass during transcribe_audio_files

\* a unit without transcript: the functions return None
NoTranscript == [found |-> FALSE, text |-> <<>>]
TranscriptText(text) == [found |-> TRUE, text |-> text]

\* what may happen in one call: the file cannot be opened, the request
\* fails, the endpoint answers with an empty text, or with a text
CallOutcomes == {"open_failed", "api_failed", "empty", "text"}

\* a failed request is sent a second time
transcribe_with_whisper1_Retrying(key, outcome, text) ==
  IF ~key THEN [exits |-> TRUE, transcript |-> NoTranscript, sent |-> 0]
  ELSE IF outcome = "open_failed" THEN [exits |-> FALSE, transcript |-> NoTranscript, sent |-> 0]
  ELSE IF outcome = "api_failed" THEN [exits |-> FALSE, transcript |-> NoTranscript, sent |-> 2]
  ELSE [exits |-> FALSE, sent |-> 1,
        transcript |-> IF outcome = "empty" THEN TranscriptText(<<>>) ELSE TranscriptText(text)]

\* transcribe_with_whisper1, lines 139-194.  get_openai_client (line 141,
\* outside the try) calls sys.exit(1) when no API key is configured; every
\* exception of the try block is logged and None is returned
transcribe_with_whisper1(key, outcome, text) ==
  IF ~key THEN [exits |-> TRUE, transcript |-> NoTranscript, sent |-> 0]
  ELSE IF outcome = "open_failed" THEN [exits |-> FALSE, transcript |-> NoTranscript, sent |-> 0]
  ELSE IF outcome = "api_failed" THEN [exits |-> FALSE, transcript |-> NoTranscript, sent |-> 1]
  ELSE [exits |-> FALSE, sent |-> 1,
        transcript |-> IF outcome = "empty" THEN TranscriptText(<<>>) ELSE TranscriptText(text)]

\* transcribe_with_4o, lines 196-233: the same around chat.completions
transcribe_with_4o(key, outcome, text) ==
  IF ~key THEN [exits |-> TRUE, transcript |-> NoTranscript, sent |-> 0]
  ELSE IF outcome = "open_failed" THEN [exits |-> FALSE, transcript |-> NoTranscript, sent |-> 0]
  ELSE IF outcome = "api_failed" THEN [exits |-> FALSE, transcript |-> NoTranscript, sent |-> 1]
  ELSE [exits |-> FALSE, sent |-> 1,
        transcript |-> IF outcome = "empty" THEN TranscriptText(<<>>) ELSE TranscriptText(text)]

\* what is spoken in chunk c of file f (the whole file when it is not cut)
SpokenIn(f, c) == <<"f", ToString(f), "c", ToString(c.i)>>

\* the chunk transcripts are put one after the other
RECURSIVE JoinLines_NoSeparator(_)
JoinLines_NoSeparator(parts) ==
  IF Len(parts) = 1 THEN parts[1]
  ELSE parts[1] \o JoinLines_NoSeparator(SubSeq(parts, 2, Len(parts)))

\* line 391: "\n".join(chunk_transcripts), for a list that is not empty
RECURSIVE JoinLines(_)
JoinLines(parts) ==
  IF Len(parts) = 1 THEN parts[1]
  ELSE parts[1] \o <<"nl">> \o JoinLines(SubSeq(parts, 2, Len(parts)))

\* lines 354-359: the chunks of file f
FileChunksOf(f) ==
  IF should_chunk
  THEN chunk_audio_file(recordings[f], max_chunk_size_sec, transcoder).chunks
  ELSE <<OriginalPath>>

\* lines 351-394 between two transcription calls: while the current file
\* has no chunk left its chunk transcripts are combined (lines 390-392) and
\* the next file is taken; the function returns after the last file
RECURSIVE LoopOn(_, _, _, _)
LoopOn(f, chunks, cts, ts) ==
  IF f > Len(recordings)
  THEN [pc |-> "returned", f |-> f, chunks |-> <<>>, cts |-> <<>>, ts |-> ts]
  ELSE IF chunks = <<>>
  THEN LoopOn(f + 1,
              IF f + 1 <= Len(recordings) THEN FileChunksOf(f + 1) ELSE <<>>,
              <<>>,
              IF cts # <<>> THEN Append(ts, JoinLines(cts)) ELSE ts)
  ELSE [pc |-> "loop", f |-> f, chunks |-> chunks, cts |-> cts, ts |-> ts]

LoopState(s) ==
  /\ tPc' = s.pc
  /\ file_no' = s.f
  /\ file_chunks' = s.chunks
  /\ chunk_transcripts' = s.cts
  /\ file_transcripts' = s.ts

\* the temporary chunk files made when the files from..to are cut
ChunksMade(from, to) ==
  UNION { { [file |-> f, chunk |-> FileChunksOf(f)[i]] :
              i \in {j \in 1..Len(FileChunksOf(f)) : FileChunksOf(f)[j].kind = "chunk"} } :
          f \in from..to }

\* lines 312-319: base name of the unit, model type and the second of the
\* clock make the name of the audit file
AuditName(f, chunk) ==
  [base |-> IF chunk.kind = "original" THEN <<file_names[f].base>>
            ELSE <<file_names[f].base, "chunk", chunk.i>>,
   model |-> model_type, stamp |-> now_sec]

\* lines 322-327: open(output_path, 'w') and the writes
save_individual_transcription(dir, name, text) ==
  {e \in dir : e.name # name} \cup {[name |-> name, text |-> text]}

\* a chunk is removed only when it gave a transcript
CleansUp_OnlyTranscribed(chunk, transcript) ==
  should_chunk /\ chunk.kind = "chunk" /\ transcript.found

\* line 383: should_chunk and chunk != file_path
CleansUp(chunk, transcript) == should_chunk /\ chunk.kind = "chunk"

\* transcribe_audio_files is called, lines 337-351
StartTranscribe ==
  /\ tPc = "idle"
  /\ LET s == LoopOn(1, IF recordings # <<>> THEN FileChunksOf(1) ELSE <<>>, <<>>, <<>>)
     IN /\ LoopState(s)
        /\ temp_chunks' = ChunksMade(1, IF s.f > Len(recordings) THEN Len(recordings) ELSE s.f)
  /\ UNCHANGED <<fnVars, schedVars, pipeVars, findVars, chunkVars, api_key,
                 model_type, should_chunk, recordings, heard, file_names, now_sec,
                 audit, io_budget, apiVars, webVars>>

\* lines 363-387: one chunk is transcribed, its transcript is saved to the
\* audit directory, the temporary chunk is removed, and the loop goes on.
\*   audit_ok: save_individual_transcription succeeds; rm_ok: os.remove succeeds
TranscribeChunk ==
  /\ tPc = "loop"
  /\ \E outcome \in CallOutcomes, audit_ok \in BOOLEAN, rm_ok \in BOOLEAN :
       LET chunk == Head(file_chunks)
           text == SpokenIn(file_no, chunk)
           r == IF model_type = "whisper-1"
                THEN transcribe_with_whisper1(api_key, outcome, text)
                ELSE transcribe_with_4o(api_key, outcome, text)
           truthy == r.transcript.found /\ r.transcript.text # <<>>
           cts == IF truthy THEN Append(chunk_transcripts, r.transcript.text)
                  ELSE chunk_transcripts
           cleans == ~r.exits /\ CleansUp(chunk, r.transcript)
           failed == (IF audit_ok THEN 0 ELSE 1) + (IF rm_ok THEN 0 ELSE 1)
           s == LoopOn(file_no, Tail(file_chunks), cts, file_transcripts)
           last == IF s.f > Len(recordings) THEN Len(recordings) ELSE s.f
       IN /\ api_key \/ outcome = "open_failed"
          /\ ~audit_ok => truthy
          /\ ~rm_ok => cleans
          /\ failed <= io_budget
          /\ io_budget' = io_budget - failed
          /\ heard' = Append(heard, [file |-> file_no, chunk |-> chunk,
                                     outcome |-> IF api_key THEN outcome ELSE "no_key",
                                     transcript |-> r.transcript, sent |-> r.sent,
                                     audited |-> truthy /\ audit_ok,
                                     removal |-> IF ~cleans THEN "none"
                                                 ELSE IF rm_ok THEN "ok" ELSE "failed"])
          /\ audit' = IF truthy /\ audit_ok
                      THEN save_individual_transcription(audit, AuditName(file_no, chunk),
                                                         r.transcript.text)
                      ELSE audit
          /\ IF r.exits
             THEN /\ tPc' = "exited"
                  /\ UNCHANGED <<file_no, file_chunks, chunk_transcripts,
                                 file_transcripts, temp_chunks>>
             ELSE /\ LoopState(s)
                  /\ temp_chunks' =
                       (temp_chunks \ (IF cleans /\ rm_ok
                                       THEN {[file |-> file_no, chunk |-> chunk]} ELSE {}))
                       \cup ChunksMade(file_no + 1, last)
  /\ UNCHANGED <<fnVars, schedVars, pipeVars, findVars, chunkVars, api_key,
                 model_type, should_chunk, recordings, file_names, now_sec, apiVars, webVars>>

\* a second of the wall clock passes
Tick ==
  /\ tPc = "loop"
  /\ now_sec < MaxClock
  /\ now_sec' = now_sec + 1
  /\ UNCHANGED <<fnVars, schedVars, pipeVars, findVars, chunkVars, api_key,
                 model_type, should_chunk, recordings, tPc, file_no, file_chunks,
                 chunk_transcripts, file_transcripts, heard, file_names, audit,
                 temp_chunks, io_budget, apiVars, webVars>>

\* audio files of one directory: two of them differ in the extension only
AudioNames ==
  { [base |-> "a", ext |-> "mp3"], [base |-> "a", ext |-> "wav"],
    [base |-> "b", ext |-> "mp3"] }

\* the names given to the files where the names do not matter
NameOrder ==
  << [base |-> "a", ext |-> "mp3"], [base |-> "b", ext |-> "mp3"],
     [base |-> "a", ext |-> "wav"], [base |-> "b", ext |-> "wav"] >>

\* durations of the recordings tried, against a maximum chunk duration of 2
RecordingSamples == {1, 3}

RECURSIVE RecordingLists(_)
RecordingLists(n) ==
  IF n = 0 THEN {<<>>}
  ELSE LET prev == RecordingLists(n - 1)
       IN prev \cup {Append(l, d) : l \in prev, d \in RecordingSamples}

InitTranscribe ==
  /\ FnIdle /\ SchedIdle /\ PipeIdle /\ FindIdle /\ ApiIdle /\ WebIdle
  /\ duration = 0 /\ max_chunk_size_sec = 2 /\ transcoder = "ok"
  /\ requests = <<>> /\ chunk_files = <<>>
  /\ api_key \in BOOLEAN
  /\ model_type \in {"whisper-1", "4o-transcribe"}
  /\ should_chunk \in BOOLEAN
  /\ recordings \in RecordingLists(MaxRecordings)
  /\ tPc = "idle" /\ file_no = 0 /\ file_chunks = <<>>
  /\ chunk_transcripts = <<>> /\ file_transcripts = <<>> /\ heard = <<>>
  /\ file_names = SubSeq(NameOrder, 1, Len(recordings))
  /\ now_sec = 0 /\ audit = {} /\ temp_chunks = {} /\ io_budget = 0

NextTranscribe == StartTranscribe \/ TranscribeChunk

SpecTranscribe == InitTranscribe /\ [][NextTranscribe]_vars

\* the same with the wall clock running and file operations that may fail:
\* two audio files, a key and one model type
FilesTranscribed == {<<1, 1>>, <<3, 1>>}

InitTranscribeFiles ==
  /\ FnIdle /\ SchedIdle /\ PipeIdle /\ FindIdle /\ ApiIdle /\ WebIdle
  /\ duration = 0 /\ max_chunk_size_sec = 2 /\ transcoder = "ok"
  /\ requests = <<>> /\ chunk_files = <<>>
  /\ api_key = TRUE
  /\ model_type = "whisper-1"
  /\ should_chunk \in BOOLEAN
  /\ recordings \in FilesTranscribed
  /\ tPc = "idle" /\ file_no = 0 /\ file_chunks = <<>>
  /\ chunk_transcripts = <<>> /\ file_transcripts = <<>> /\ heard = <<>>
  /\ file_names \in {p \in AudioNames \X AudioNames : p[1] # p[2]}
  /\ now_sec = 0 /\ audit = {} /\ temp_chunks = {} /\ io_budget = MaxFaults

NextTranscribeFiles == NextTranscribe \/ Tick

SpecTranscribeFiles == InitTranscribeFiles /\ [][NextTranscribeFiles]_vars

----------------------------------------------------------------------------
(* Claims about the transcription calls and the loop around them           *)

FailedCall(e) == e.outcome \in {"open_failed", "api_failed"}

FailuresYieldNone ==
  \A i \in 1..Len(heard) :
    FailedCall(heard[i]) => /\ heard[i].transcript = NoTranscript
                            /\ heard[i].sent <= 1

\* C15 as stated: transcribe_with_whisper1 and transcribe_with_4o never
\* raise to, or terminate, their caller; every failure of a transcription
\* call yields no transcript for that unit and is not retried.
C15_NeverTerminatesCallerAsStated ==
  /\ tPc # "exited"
  /\ FailuresYieldNone

\* C15: with an API key configured the two functions never terminate their
\* caller, every failure of a transcription call yields no transcript for
\* that unit, and at most one request is sent for it; without an API key the
\* first call ends the process (sys.exit) before any request is sent.
C15_FailureYieldsNone ==
  /\ api_key => tPc # "exited"
  /\ FailuresYieldNone
  /\ tPc = "exited" => /\ ~api_key
                       /\ Len(heard) = 1
                       /\ heard[1].sent = 0
  /\ (~api_key /\ heard # <<>>) => tPc = "exited"

C15_Witness ==
  /\ tPc = "returned"
  /\ \E i \in 1..Len(heard) : heard[i].outcome = "api_failed" /\ heard[i].sent = 1
  /\ \E i \in 1..Len(heard) : heard[i].outcome = "open_failed"

HeardOf(f) ==
  LET OfFile(e) == e.file = f IN SelectSeq(heard, OfFile)

\* the texts the endpoint gave for file f, in the order of the calls
TextsOf(f) ==
  LET Spoken(e) == e.outcome = "text"
      es == SelectSeq(HeardOf(f), Spoken)
  IN [i \in 1..Len(es) |-> SpokenIn(f, es[i].chunk)]

RECURSIVE NewlineJoined(_)
NewlineJoined(parts) ==
  IF Len(parts) = 1 THEN parts[1]
  ELSE NewlineJoined(SubSeq(parts, 1, Len(parts) - 1)) \o <<"nl">> \o parts[Len(parts)]

RECURSIVE ExpectedTranscripts(_)
ExpectedTranscripts(f) ==
  IF f > Len(recordings) THEN <<>>
  ELSE (IF TextsOf(f) = <<>> THEN <<>> ELSE <<NewlineJoined(TextsOf(f))>>)
       \o ExpectedTranscripts(f + 1)

\* every chunk of file f was given to the transcription once, in the order
\* in which the file was cut, and the files were taken in their order
InOriginalOrder ==
  /\ \A f \in 1..Len(recordings) :
       LET es == HeardOf(f)
       IN /\ Len(es) = Len(FileChunksOf(f))
          /\ \A i \in 1..Len(es) : es[i].chunk = FileChunksOf(f)[i]
          /\ \A i, j \in 1..Len(es) : i < j => es[i].chunk.i < es[j].chunk.i
  /\ \A i, j \in 1..Len(heard) : i < j => heard[i].file <= heard[j].file

\* C20: when transcribe_audio_files returns, the chunks of every file were
\* transcribed in their original order, the result holds for every file
\* with a non-empty chunk transcript these transcripts joined by newlines
\* in that order, and a file without any contributes nothing.
C20_JoinedInOrder ==
  tPc = "returned" =>
    /\ InOriginalOrder
    /\ file_transcripts = ExpectedTranscripts(1)

C20_Witness ==
  /\ tPc = "returned"
  /\ should_chunk
  /\ Len(recordings) = 2
  /\ Len(file_transcripts) = 1
  /\ \E f \in 1..2 : Len(TextsOf(f)) = 2
  /\ \E i \in 1..Len(heard) : heard[i].outcome = "empty"

----------------------------------------------------------------------------
(* openai_processor.py: call_openai_api, with its retries and the cache    *)
(* of the process.  A call is run one attempt at a time.                   *)

MaxApiCalls == 3       \* calls of call_openai_api in one process

max_retries == 3
first_retry_delay == 1
enable_caching == TRUE

\* what the endpoint may answer
ApiResults == {"r1", "r2"}

\* the delay stays the same
NextRetryDelay_Constant(d) == d

\* line 169: retry_delay *= 2
NextRetryDelay(d) == d * 2

\* the result is not kept
StoreInCache_Nothing(cache, req, res) == cache

\* lines 159-161: _api_cache[cache_key] = result
StoreInCache(cache, req, res) ==
  IF enable_caching THEN [cache EXCEPT ![req] = res] ELSE cache

\* lines 108-120: the cached response of the request, if there is one
Cached(cache, req) == enable_caching /\ cache[req] # NoResult

\* lines 105-139: call_openai_api is called in this process.  Without an API
\* key get_openai_client raises; a cached response is returned; otherwise
\* the attempts begin
ApiCall ==
  /\ apiPc # "attempting"
  /\ api_calls < MaxApiCalls
  /\ \E req \in Requests :
       /\ request' = req
       /\ api_calls' = api_calls + 1
       /\ attempt' = 0 /\ retry_delay' = first_retry_delay
       /\ slept' = <<>> /\ invoked' = 0
       /\ IF ~openai_key
          THEN apiPc' = "raised" /\ api_result' = NoResult
          ELSE IF Cached(api_cache, req)
          THEN apiPc' = "returned" /\ api_result' = api_cache[req]
          ELSE apiPc' = "attempting" /\ api_result' = NoResult
  /\ UNCHANGED <<fnVars, schedVars, pipeVars, findVars, chunkVars, transVars, webVars,
                 openai_key, api_cache, answered>>

\* lines 141-172: one pass of the retry loop.  The endpoint is invoked; its
\* answer is stored and returned, or the failure (of the request, or of
\* reading the response) is followed by a sleep or raised
ApiAttempt ==
  /\ apiPc = "attempting"
  /\ invoked' = invoked + 1
  /\ \E outcome \in {"failed"} \cup ApiResults :
       IF outcome # "failed"
       THEN /\ api_cache' = StoreInCache(api_cache, request, outcome)
            /\ answered' = IF answered[request] = NoResult
                           THEN [answered EXCEPT ![request] = outcome]
                           ELSE answered
            /\ api_result' = outcome
            /\ apiPc' = "returned"
            /\ UNCHANGED <<attempt, retry_delay, slept>>
       ELSE IF attempt < max_retries - 1
       THEN /\ slept' = Append(slept, retry_delay)
            /\ retry_delay' = NextRetryDelay(retry_delay)
            /\ attempt' = attempt + 1
            /\ UNCHANGED <<api_cache, answered, api_result, apiPc>>
       ELSE /\ apiPc' = "raised"
            /\ UNCHANGED <<api_cache, answered, api_result, attempt, retry_delay, slept>>
  /\ UNCHANGED <<fnVars, schedVars, pipeVars, findVars, chunkVars, transVars, webVars,
                 openai_key, request, api_calls>>

InitApi ==
  /\ FnIdle /\ SchedIdle /\ PipeIdle /\ FindIdle /\ ChunkIdle /\ TransIdle /\ WebIdle
  /\ openai_key \in BOOLEAN
  /\ api_cache = [r \in Requests |-> NoResult]
  /\ answered = [r \in Requests |-> NoResult]
  /\ apiPc = "idle" /\ request = [model |-> "gpt-4o", messages |-> "m1"]
  /\ attempt = 0 /\ retry_delay = first_retry_delay /\ slept = <<>> /\ invoked = 0
  /\ api_result = NoResult /\ api_calls = 0

NextApi == ApiCall \/ ApiAttempt

SpecApi == InitApi /\ [][NextApi]_vars

----------------------------------------------------------------------------
(* Claims about call_openai_api                                            *)

\* the sleeps of a call whose attempts all fail
Backoff == <<1, 2>>

AttemptsBounded ==
  /\ invoked <= 3
  /\ apiPc = "attempting" => /\ invoked < 3
                             /\ slept = SubSeq(Backoff, 1, invoked)
  /\ (apiPc = "returned" /\ invoked > 0) => slept = SubSeq(Backoff, 1, invoked - 1)
  /\ (apiPc = "raised" /\ openai_key) => invoked = 3 /\ slept = Backoff

\* C16: call_openai_api makes at most three attempts per uncached request
\* and stops at the first success; it sleeps 1 second after the first
\* failure and 2 seconds after the second, and after the third failure it
\* raises without sleeping again and without storing anything in the cache.
C16_ThreeAttemptsWithBackoff ==
  /\ []AttemptsBounded
  /\ [][(apiPc = "returned" /\ invoked' # 0) => invoked' = invoked]_vars
  /\ [][apiPc' = "raised" => (slept' = slept /\ api_cache' = api_cache)]_vars
  /\ [][api_cache' # api_cache => (apiPc' = "returned" /\ invoked' = invoked + 1)]_vars

C16_Witness ==
  /\ apiPc = "raised"
  /\ invoked = 3
  /\ slept = Backoff
  /\ \E r \in Requests : api_cache[r] # NoResult

\* C17: within one process, once call_openai_api has succeeded for a
\* request, every later call with the same request returns the same result
\* without invoking the completion endpoint again, and no cache entry is
\* ever evicted or replaced.
C17_CachedForTheProcess ==
  /\ [][(apiPc # "attempting" /\ api_calls' = api_calls + 1
           /\ answered[request'] # NoResult)
        => (apiPc' = "returned" /\ api_result' = answered[request'] /\ invoked' = 0)]_vars
  /\ [][apiPc = "returned" => invoked' \in {0, invoked}]_vars
  /\ [][\A r \in Requests : api_cache[r] # NoResult => api_cache'[r] = api_cache[r]]_vars

C17_Witness ==
  /\ apiPc = "returned"
  /\ api_calls = 3
  /\ invoked = 0
  /\ api_result = answered[request]
  /\ \E r \in Requests : r # request /\ answered[r] \notin {NoResult, api_result}

----------------------------------------------------------------------------
(* Claims about the files transcribe_audio_files writes and removes        *)

\* C21 as stated: every transcript that was saved to the audit directory is
\* still there, in a file of its own: no audit write overwrites an audit
\* file written earlier in the run, even when several transcripts are saved
\* within the same second.
C21_NoAuditOverwrite ==
  \A i \in 1..Len(heard) :
    heard[i].audited => \E e \in audit : e.text = heard[i].transcript.text

\* the temporary chunks whose removal failed
RemovalFailed ==
  { [file |-> heard[i].file, chunk |-> heard[i].chunk] :
      i \in {j \in 1..Len(heard) : heard[j].removal = "failed"} }

----------------------------------------------------------------------------
(* Claims about the rollover of the diary                                  *)

\* the call of check_for_day_change at the head of a cycle finds automatic
\* updating enabled and a configured date that is not today
ChecksOnNewDay ==
  /\ cycles' = cycles + 1
  /\ auto_update_date
  /\ diary_config_date # today

HasHeaderAndNote(file, d) ==
  /\ file.exists
  /\ BeginsWithHeader(file) /\ file.content[1] = DiaryHeader(d)
  /\ \E i \in 1..(Len(file.content) - 1) :
       file.content[i] = SystemNoteHeading /\ file.content[i + 1] = SystemNoteText

\* C23 as stated: when auto-update is enabled and the configured date
\* differs from today, check_for_day_change reports a rollover, today's
\* diary file then exists with the header and a system note, and the date
\* in the configuration file equals today.
C23_RolloverAsStated ==
  [][ChecksOnNewDay =>
       /\ day_changed'
       /\ HasHeaderAndNote(diary'[today], today)
       /\ cfg_date' = today]_vars

\* C23 amended: in that case, if no file operation fails, the check reports
\* a rollover and the date in the configuration file and the scheduler's
\* copy of it equal today; today's diary file is created with the header
\* followed by the system note if it did not exist, and is left as it was
\* (no note is added) if it existed.  A reported rollover always leaves
\* today's file in existence and the scheduler's copy equal to today, though
\* the date on disk stays behind if writing it failed; if no rollover is
\* reported, creating the file failed and both dates are left alone.
C23_Rollover ==
  [][ChecksOnNewDay =>
       /\ ~ioFailed' =>
            /\ day_changed'
            /\ cfg_date' = today /\ diary_config_date' = today
            /\ \A d \in Days \ {today} : diary'[d] = diary[d]
            /\ diary'[today] =
                 IF diary[today].exists THEN diary[today]
                 ELSE FileOf(<<DiaryHeader(today), SystemNoteHeading, SystemNoteText>>)
       /\ day_changed' =>
            /\ diary'[today].exists
            /\ diary_config_date' = today
            /\ cfg_date' \in {today, cfg_date}
       /\ ~day_changed' =>
            /\ ioFailed'
            /\ cfg_date' = cfg_date /\ diary_config_date' = diary_config_date]_vars

C23_Witness ==
  /\ pipePc = "download"
  /\ today = 1
  /\ day_changed /\ ~ioFailed
  /\ cfg_date = 1 /\ diary_config_date = 1
  /\ diary[1] = FileOf(<<DiaryHeader(1), SystemNoteHeading, SystemNoteText>>)
  /\ diary[0].exists

\* a rollover onto a diary file that exists already
C23_ExistingFile ==
  /\ pipePc = "download"
  /\ day_changed /\ ~ioFailed
  /\ diary[today].exists
  /\ \A i \in 1..Len(diary[today].content) : diary[today].content[i] # SystemNoteHeading

----------------------------------------------------------------------------
(* scheduler_control/views.py: the dashboard.  Requests are handled by     *)
(* concurrent workers over one SchedulerStatus row, one process table and  *)
(* one config.json.  toggle_scheduler sleeps between spawning the process  *)
(* and saving the status, and is run in these two steps.                   *)

MaxHandlers == 2       \* toggle_scheduler requests handled at the same time
MaxProcs == 2          \* scheduler processes that fit the process table

status_check_grace_period == 5

Handlers == 1..MaxHandlers
Pids == 1..MaxProcs
Users == {"anonymous", "visita", "admin"}

\* django's login_required: an anonymous request is sent to the login page
login_required(user) == user # "anonymous"

\* the views that carry @demo_user_required
DemoGuarded == {"dashboard", "record", "process_audio"}

\* lines 24-39: the demo user is let into the allowed views only
demo_user_required(user, view) ==
  IF user = "anonymous" THEN "login"
  ELSE IF user = "visita" /\ view \notin {"email_config", "process_audio", "logout"}
  THEN "redirect"
  ELSE "view"

\* the decorators of a view, outermost first: what a request of user gets
Access(user, view) ==
  IF ~login_required(user) THEN "login"
  ELSE IF view \in DemoGuarded THEN demo_user_required(user, view)
  ELSE "view"

Handled(user, view, reply) ==
  last_request' = [user |-> user, view |-> view, served |-> Access(user, view) = "view",
                   reply |-> reply, seq |-> 1 - last_request.seq]

\* lines 70-80: the first scheduler process of the process table
find_scheduler_process == CHOOSE p \in procs : \A q \in procs : p <= q

\* the scheduler is started only when no scheduler process is found
ShouldStart_Singleton(st) == ~st.is_running /\ procs = {}

\* line 108: if not status.is_running
ShouldStart(st) == ~st.is_running

\* toggle_scheduler, lines 102-125 and 157-188: the status row is read; if
\* it says 'not running' a scheduler process is spawned and the handler
\* sleeps; otherwise the process found is terminated and the row is saved
\* (raises: terminating fails, and the except branch only logs)
ToggleBegin(h) ==
  /\ handlers[h] = "idle"
  /\ \E user \in Users, raises \in BOOLEAN :
       /\ Handled(user, "toggle_scheduler", "none")
       /\ IF Access(user, "toggle_scheduler") # "view"
          THEN /\ ~raises
               /\ UNCHANGED <<status, procs, scheduler_process, handlers>>
          ELSE IF ShouldStart(status)
          THEN /\ ~raises
               /\ Pids \ procs # {}
               /\ LET p == CHOOSE x \in Pids \ procs : \A y \in Pids \ procs : x <= y
                  IN /\ procs' = procs \cup {p}
                     /\ scheduler_process' = p
               /\ handlers' = [handlers EXCEPT ![h] = "starting"]
               /\ UNCHANGED status
          ELSE /\ raises => procs # {}
               /\ procs' = IF procs = {} \/ raises THEN procs
                           ELSE procs \ {find_scheduler_process}
               /\ status' = IF raises THEN status ELSE [status EXCEPT !.is_running = FALSE]
               /\ UNCHANGED <<scheduler_process, handlers>>
  /\ UNCHANGED <<fnVars, schedVars, pipeVars, findVars, chunkVars, transVars, apiVars>>

\* toggle_scheduler, lines 127-156: after the sleep the global
\* scheduler_process is polled; if it runs, or ended saying there was
\* nothing to process (benign), the row is saved as running
ToggleFinish(h) ==
  /\ handlers[h] = "starting"
  /\ \E benign \in BOOLEAN :
       /\ scheduler_process \in procs => benign
       /\ status' = IF benign THEN [is_running |-> TRUE, since_start |-> 0] ELSE status
  /\ handlers' = [handlers EXCEPT ![h] = "idle"]
  /\ UNCHANGED <<fnVars, schedVars, pipeVars, findVars, chunkVars, transVars, apiVars,
                 procs, scheduler_process, last_request>>

\* the stored status stays as it is whenever no process is found
Reconciled_KeepsRunning(st, is_running) ==
  IF is_running THEN [st EXCEPT !.is_running = TRUE] ELSE st

\* get_status, lines 199-210: the row after the comparison with the
\* process table
Reconciled(st, is_running) ==
  IF st.is_running = is_running THEN st
  ELSE IF ~is_running /\ st.since_start # NoStart
  THEN (IF st.since_start > status_check_grace_period
        THEN [st EXCEPT !.is_running = FALSE] ELSE st)
  ELSE IF is_running THEN [st EXCEPT !.is_running = TRUE]
  ELSE st

\* get_status, lines 190-216
GetStatus ==
  /\ \E user \in Users :
       IF Access(user, "get_status") # "view"
       THEN /\ Handled(user, "get_status", "none")
            /\ UNCHANGED status
       ELSE /\ status' = Reconciled(status, procs # {})
            /\ Handled(user, "get_status",
                       IF status'.is_running THEN "running" ELSE "stopped")
  /\ UNCHANGED <<fnVars, schedVars, pipeVars, findVars, chunkVars, transVars, apiVars,
                 procs, scheduler_process, handlers>>

\* update_runs_per_day, lines 218-288: a valid value is written to
\* config.json by setup_num_runs.py (script_ok: it exits with status 0)
UpdateRunsPerDay ==
  /\ \E user \in Users, value \in RunsPerDaySamples \cup {-1}, script_ok \in BOOLEAN :
       /\ Handled(user, "update_runs_per_day", "none")
       /\ (Access(user, "update_runs_per_day") # "view" \/ value < 0) => script_ok
       /\ Access(user, "update_runs_per_day") # "view" => value < 0
       /\ runs_per_day' =
            IF Access(user, "update_runs_per_day") = "view" /\ value >= 0 /\ script_ok
            THEN value ELSE runs_per_day
  /\ UNCHANGED <<fnVars, interval_seconds, pipeVars, findVars, chunkVars, transVars,
                 apiVars, status, procs, scheduler_process, handlers>>

\* dashboard, email_config, process_audio: views that leave the scheduler
\* alone
OpenView ==
  /\ \E user \in Users, view \in {"dashboard", "email_config", "process_audio"} :
       Handled(user, view, "none")
  /\ UNCHANGED <<fnVars, schedVars, pipeVars, findVars, chunkVars, transVars, apiVars,
                 status, procs, scheduler_process, handlers>>

\* a scheduler process ends: run-once mode, an error, a signal
SchedulerExits ==
  /\ \E p \in procs : procs' = procs \ {p}
  /\ UNCHANGED <<fnVars, schedVars, pipeVars, findVars, chunkVars, transVars, apiVars,
                 status, scheduler_process, handlers, last_request>>

\* scheduler.py is started from a shell, not by the dashboard
ExternalStart ==
  /\ Pids \ procs # {}
  /\ procs' = procs \cup {CHOOSE x \in Pids \ procs : \A y \in Pids \ procs : x <= y}
  /\ UNCHANGED <<fnVars, schedVars, pipeVars, findVars, chunkVars, transVars, apiVars,
                 status, scheduler_process, handlers, last_request>>

\* a second passes; seconds beyond the grace period are not told apart
WebTick ==
  /\ status.since_start # NoStart
  /\ status.since_start <= status_check_grace_period
  /\ status' = [status EXCEPT !.since_start = @ + 1]
  /\ UNCHANGED <<fnVars, schedVars, pipeVars, findVars, chunkVars, transVars, apiVars,
                 procs, scheduler_process, handlers, last_request>>

InitWeb ==
  /\ FnIdle /\ PipeIdle /\ FindIdle /\ ChunkIdle /\ TransIdle /\ ApiIdle
  /\ runs_per_day = 24 /\ interval_seconds = 0
  /\ status = [is_running |-> FALSE, since_start |-> NoStart]
  /\ procs = {} /\ scheduler_process = NoProcess
  /\ handlers = [h \in Handlers |-> "idle"]
  /\ last_request = NoRequest

NextWeb ==
  \/ \E h \in Handlers : ToggleBegin(h)
  \/ \E h \in Handlers : ToggleFinish(h)
  \/ GetStatus
  \/ UpdateRunsPerDay
  \/ OpenView
  \/ SchedulerExits
  \/ ExternalStart
  \/ WebTick

SpecWeb == InitWeb /\ [][NextWeb]_vars

----------------------------------------------------------------------------
(* Claims about the dashboard                                              *)

\* a request was handled in this step
RequestHandled == last_request'.seq # last_request.seq

Served(view) ==
  RequestHandled /\ last_request'.view = view /\ last_request'.served

\* C24: nothing in the start path enforces mutual exclusion: every
\* toggle_scheduler request that reads is_running = false spawns a scheduler
\* process, whatever processes run already and whatever other requests are
\* being handled; so two requests handled concurrently both spawn one, and
\* two scheduler processes run at the same time (the witness).
C24_StartNotExclusive ==
  [][(Served("toggle_scheduler") /\ ~status.is_running)
       => (Cardinality(procs') = Cardinality(procs) + 1 /\ procs \subseteq procs')]_vars

C24_Witness ==
  /\ Cardinality(procs) = 2
  /\ \A h \in {1, 2} : handlers[h] = "starting"
  /\ ~status.is_running
  /\ scheduler_process = 2

GraceElapsed(st) == st.since_start # NoStart /\ st.since_start > status_check_grace_period
WithinGrace(st) == st.since_start # NoStart /\ st.since_start <= status_check_grace_period

\* C29 as stated: get_status reports is_running = true whenever a scheduler
\* process exists, and false whenever none exists and no start lies within
\* the grace period; within the grace period after a start it never flips
\* is_running to false.
C29_ReconciledAsStated ==
  [][Served("get_status") =>
       /\ procs # {} => last_request'.reply = "running"
       /\ (procs = {} /\ ~WithinGrace(status)) => last_request'.reply = "stopped"
       /\ (WithinGrace(status) /\ status.is_running) => status'.is_running]_vars

\* C29 amended: the same, where the report of false for a missing process
\* needs a recorded start whose grace period has elapsed; a stored true
\* without any recorded start is reported as it is.
C29_Reconciled ==
  [][Served("get_status") =>
       /\ last_request'.reply = IF status'.is_running THEN "running" ELSE "stopped"
       /\ procs # {} => last_request'.reply = "running"
       /\ (procs = {} /\ GraceElapsed(status)) => last_request'.reply = "stopped"
       /\ (procs = {} /\ ~status.is_running) => last_request'.reply = "stopped"
       /\ (WithinGrace(status) /\ status.is_running) => status'.is_running
       /\ (procs = {} /\ status.since_start = NoStart /\ status.is_running)
            => last_request'.reply = "running"]_vars

C29_Witness ==
  /\ last_request.view = "get_status" /\ last_request.served
  /\ last_request.reply = "stopped"
  /\ procs = {}
  /\ ~status.is_running
  /\ GraceElapsed(status)

\* C30 as stated: no request of the demo user changes the scheduler's state
\* (the status row, the scheduler processes, runs_per_day), and the demo
\* user is served no view but email_config, process_audio and logout.
C30_DemoUserConfined ==
  [][(RequestHandled /\ last_request'.user = "visita") =>
       /\ status' = status
       /\ procs' = procs
       /\ runs_per_day' = runs_per_day
       /\ last_request'.served =>
            last_request'.view \in {"email_config", "process_audio", "logout"}]_vars

----------------------------------------------------------------------------
(* Claims about transcripts on their way from the output file to the diary *)

\* this step is the processing step of a cycle
ProcessStepTaken == attempted' = Append(attempted, "process")

EntriesOf(file) ==
  LET IsEntry(w) == w.k = "EntryText" IN SelectSeq(file.content, IsEntry)

\* the step appends no entry to a diary file and nothing to to_do.txt
AppendsNothing ==
  /\ \A d \in Days : EntriesOf(diary'[d]) = EntriesOf(diary[d])
  /\ EntriesOf(legacy') = EntriesOf(legacy)
  /\ todo' = todo

\* C27 as stated: no transcript is appended to the diary more than once:
\* after a processing step succeeds the output file is emptied, and a later
\* cycle without a new transcript appends nothing to the diary or to-do file.
C27_AppendedOnceAsStated ==
  [][ProcessStepTaken =>
       /\ stepResult'.process = "ok" => outputFile' = FileOf(<<>>)
       /\ organized => AppendsNothing]_vars

\* C27 amended: a processing step that succeeds empties the output file
\* unless the clearing itself fails, which is only logged; a later cycle that
\* finds the file emptied appends nothing to the diary or the to-do file; and
\* what the file holds is appended a second time only after such a failure.
C27_AppendedOnce ==
  /\ [][ProcessStepTaken =>
          /\ stepResult'.process = "ok" =>
               /\ outputFile' \in {FileOf(<<>>), outputFile}
               /\ ~ioFailed' => outputFile' = FileOf(<<>>)
          /\ (organized /\ outputFile.content = <<>>) => AppendsNothing]_vars
  /\ [](organized /\ faults = 0 => outputFile = FileOf(<<>>))

C27_Witness ==
  /\ cycles = 2
  /\ PipelineOver
  /\ organized /\ outputFile = FileOf(<<>>)
  /\ stepResult.process = "no_transcription"
  /\ diary = startDiary /\ todo = startTodo
  /\ \E d \in Days : Len(EntriesOf(diary[d])) = 1
  /\ processed # {}

\* C28 as stated: if process_with_openai reports failure, that call has
\* modified neither the diary file nor the to-do file.
C28_FailureLeavesFilesAlone ==
  [][(ProcessStepTaken /\ stepResult'.process = "failed") =>
       /\ diary' = diary
       /\ legacy' = legacy
       /\ todo' = todo]_vars


----------------------------------------------------------------------------
(* A cycle that follows a failed processing step.  The previous cycle has  *)
(* transcribed recording 1, saved its transcript and moved the recording   *)
(* to the processed directory; its processing step failed before anything  *)
(* was written, so the transcript is still in the output file.  New        *)
(* recordings have been downloaded since, and this cycle is about to       *)
(* transcribe them.                                                        *)

InitRetry ==
  /\ FnIdle
  /\ UnitIdle
  /\ runs_per_day = 0 /\ interval_seconds = 0
  /\ mainPc = "cycle" /\ pipePc = "transcribe" /\ cycles = 1
  /\ auto_update_date = TRUE
  /\ cfg_date = 0 /\ diary_config_date = 0 /\ day_changed = FALSE
  /\ today = 0 /\ faults = 0
  /\ endpoint = AnalysisSamples
  /\ \E kept \in BOOLEAN :
       diary = [d \in Days |-> IF kept /\ d = cfg_date THEN NewDiaryFile(d) ELSE AbsentFile]
  /\ legacy = AbsentFile
  /\ todo = <<>>
  /\ outputFile = save_transcriptions(<<TranscriptOf(1)>>, AbsentFile, append_output)
  /\ downloads \in (SUBSET {2, 3}) \ {{}}
  /\ processed = {1}
  /\ attempted = <<"download">>
  /\ stepResult = [download |-> "ok", transcribe |-> "none", process |-> "none"]
  /\ ioFailed = FALSE
  /\ startDiary = diary
  /\ startTodo = <<>>
  /\ prevCheck = [day |-> 0, outcome |-> "same", rolled |-> {}]
  /\ proc = NoProc
  /\ organized = FALSE

NextRetry == TranscribeStep \/ ProcessStep

SpecRetry == InitRetry /\ [][NextRetry]_vars

\* the output file holds the block save_transcriptions writes for the
\* transcript of recording f
HoldsTranscriptOf(file, f) ==
  LET block == TranscriptionBlock(TranscriptOf(f))
  IN  /\ file.exists
      /\ \E i \in 1..Len(file.content) :
           /\ i + Len(block) - 1 <= Len(file.content)
           /\ SubSeq(file.content, i, i + Len(block) - 1) = block

TranscribeStepTaken == attempted' = Append(attempted, "transcribe")

\* C25 as stated: a transcript that is in the output file and has not been
\* organized into the diary stays in the file until a processing step
\* succeeds on it; no transcription step overwrites it and no step clears it.
C25_UnorganizedTranscriptKept ==
  [][\A f \in processed :
       (~organized /\ HoldsTranscriptOf(outputFile, f)) =>
          \/ HoldsTranscriptOf(outputFile', f)
          \/ ProcessStepTaken /\ stepResult'.process = "ok"]_vars

\* C26 as stated: an audio file is moved to the processed directory only if
\* a transcript of that same file was saved to the output file in the same
\* run; a file whose transcription failed stays in downloads.
C26_MovedOnlyIfTranscribed ==
  [][TranscribeStepTaken =>
       \A f \in processed' \ processed : HoldsTranscriptOf(outputFile', f)]_vars

\* a transcription step has replaced an unprocessed transcript
TranscriptLost ==
  /\ stepResult.transcribe = "saved"
  /\ ~HoldsTranscriptOf(outputFile, 1)
  /\ attempted = <<"download", "transcribe">>
====
